---- MODULE Spec2Model ----
(***************************************************************************)
(* Verification model of the e-learning platform's performance store,     *)
(* learning analytics and recommendation composer.                        *)
(*                                                                         *)
(* Numbers with two decimals (rates, averages, hours) are kept as integer  *)
(* hundredths: 50.0 % is 5000.  Datetimes are integer clock ticks, a       *)
(* calendar day is TicksPerDay ticks.  A SQL NULL / Python None is NULL.   *)
(***************************************************************************)
EXTENDS Integers, Sequences, FiniteSets, TLC

VARIABLES
    backend,      \* database dialect selected by DATABASE_URL
    now,          \* datetime.utcnow(), in ticks
    usuarios,     \* table usuarios: id -> perfil_aprend
    trilhas,      \* table trilhas: id -> dificuldade
    conteudos,    \* table conteudos: id -> trilha_id
    user_trilha,  \* association table user_trilha: set of <<user_id, trilha_id>>
    desempenhos,  \* table desempenhos: set of rows
    nextId,       \* next primary key of desempenhos
    session,      \* per worker: the update_progress call in flight
    queues,       \* MessageQueue.queues
    supplied,     \* history: progress values passed to the committed update_progress calls
    result,       \* value returned by the last finished operation
    chatbot,      \* the ChatbotService of the server process and its Lua runtime
    classified,   \* history: the intents returned so far, per message
    gemini,       \* the GeminiClient: the model call in flight and the calls made
    exchanges,    \* history: per user, the exchanges processed since the last clear
    committed     \* history: the arguments of the update_progress calls, in commit order

vars == <<backend, now, usuarios, trilhas, conteudos, user_trilha,
          desempenhos, nextId, session, queues, supplied, result, chatbot, classified,
          gemini, exchanges, committed>>

-----------------------------------------------------------------------------
(* Bounds of the model *)

MaxNow == 2
TicksPerDay == 2
MaxTempo == 30
MaxQueue == 2
MaxDay == 4
StreakContents == 4

NULL == -1
NullStr == "NULL"

UserIds == {1, 2}
TrilhaIds == {1, 2}
ConteudoIds == {1, 2}
\* the API server and the Celery worker
Sessions == {1, 2}

Progressos == {0, 50, 100}
Notas == {NULL, 90}
Tempos == {NULL, 30}
Backends == {"postgresql", "sqlite"}
\* values of the days parameter (the router admits 1..365, default 30)
DaysArgs == {1, 30}

-----------------------------------------------------------------------------
(* Helpers *)

Max(a, b) == IF a >= b THEN a ELSE b

RECURSIVE SumOver(_, _)
\* sum(f(x) for x in S); f is a function defined on S
SumOver(f, S) ==
    IF S = {} THEN 0
    ELSE LET x == CHOOSE y \in S : TRUE
         IN  f[x] + SumOver(f, S \ {x})

\* Python round(n / d, 0) on exact rationals: round half to even, n >= 0, d > 0
RoundDiv(n, d) ==
    LET q == n \div d
        r == n % d
    IN  IF 2 * r < d THEN q
        ELSE IF 2 * r > d THEN q + 1
        ELSE IF q % 2 = 0 THEN q ELSE q + 1

\* func.date(datetime)
DateOf(t) == IF t = NULL THEN NULL ELSE t \div TicksPerDay

\* timedelta(days=n)
Days(n) == n * TicksPerDay

-----------------------------------------------------------------------------
(* DesempenhoRepository.update_progress, one session per worker process *)

IdleSession ==
    [pc |-> "idle", user_id |-> NULL, conteudo_id |-> NULL, progresso |-> NULL,
     nota |-> NULL, tempo_estudo |-> NULL, loaded |-> {}]

AllIdle == \A s \in Sessions : session[s].pc = "idle"

\* rows matching the filter usuario_id == user_id AND conteudo_id == conteudo_id
RowsOf(u, c) == {d \in desempenhos : d.usuario_id = u /\ d.conteudo_id = c}

NewProgresso_overwrite(old, new) == new

\* desempenho.progresso = max(desempenho.progresso, progresso)
NewProgresso(old, new) == Max(old, new)

UpdatedObject_overwriteTempo(row, p, n, t) ==
    [row EXCEPT !.progresso = NewProgresso(row.progresso, p),
                !.nota = IF n # NULL THEN n ELSE row.nota,
                !.tempo_estudo = IF t # NULL THEN t ELSE row.tempo_estudo,
                !.updated_at = now]

\* the in-memory object after the assignments of the "update existing" branch
UpdatedObject(row, p, n, t) ==
    [row EXCEPT !.progresso = NewProgresso(row.progresso, p),
                !.nota = IF n # NULL THEN n ELSE row.nota,
                !.tempo_estudo = IF t # NULL THEN row.tempo_estudo + t ELSE row.tempo_estudo,
                !.updated_at = now]

\* The UPDATE flushed at commit writes only the columns whose in-memory value
\* differs from the value loaded by the query, onto the row as it is now.
FlushUpdate(cur, loaded, obj) ==
    [cur EXCEPT !.progresso = IF obj.progresso # loaded.progresso THEN obj.progresso ELSE cur.progresso,
                !.nota = IF obj.nota # loaded.nota THEN obj.nota ELSE cur.nota,
                !.tempo_estudo = IF obj.tempo_estudo # loaded.tempo_estudo
                                 THEN obj.tempo_estudo ELSE cur.tempo_estudo,
                !.updated_at = obj.updated_at]

\* the object built by the "create new record" branch; updated_at has no
\* default and stays NULL on INSERT
NewDesempenho(id, u, c, p, n, t) ==
    [id |-> id, usuario_id |-> u, conteudo_id |-> c, progresso |-> p,
     nota |-> n, tempo_estudo |-> IF t = NULL THEN 0 ELSE t, updated_at |-> NULL]

\* db.query(Desempenho).filter(...).first(): no ORDER BY, any matching row;
\* the result as a set, empty when no row matches
QueryFirst(u, c) ==
    IF RowsOf(u, c) = {} THEN {{}} ELSE {{d} : d \in RowsOf(u, c)}

\* the branch on the loaded record, db.commit(), db.refresh() and the return
\* of update_progress(u, c, p, n, t) whose query loaded ld
Commit(u, c, p, n, t, ld) ==
    /\ IF ld # {}
       THEN LET old == CHOOSE d \in ld : TRUE
                cur == CHOOSE d \in desempenhos : d.id = old.id
                obj == UpdatedObject(old, p, n, t)
                new == FlushUpdate(cur, old, obj)
            IN  /\ obj.tempo_estudo <= MaxTempo
                /\ desempenhos' = (desempenhos \ {cur}) \cup {new}
                /\ nextId' = nextId
                /\ result' = [op |-> "update_progress", progresso |-> p,
                              created |-> FALSE, row |-> new]
       ELSE LET new == NewDesempenho(nextId, u, c, p, n, t)
            IN  /\ desempenhos' = desempenhos \cup {new}
                /\ nextId' = nextId + 1
                /\ result' = [op |-> "update_progress", progresso |-> p,
                              created |-> TRUE, row |-> new]
    /\ supplied' = [supplied EXCEPT ![<<u, c>>] = @ \cup {p}]

\* a whole call, run to completion with no other writer in between
update_progress(u, c, p, n, t) ==
    /\ \E ld \in QueryFirst(u, c) : Commit(u, c, p, n, t, ld)
    /\ UNCHANGED <<committed, gemini, exchanges, chatbot, classified, backend, now, usuarios, trilhas, conteudos, user_trilha,
                   session, queues>>

\* worker s issues the call and its session runs the query
UpQuery(s, u, c, p, n, t) ==
    /\ session[s].pc = "idle"
    /\ \E ld \in QueryFirst(u, c) :
         session' = [session EXCEPT ![s] =
                        [pc |-> "queried", user_id |-> u, conteudo_id |-> c,
                         progresso |-> p, nota |-> n, tempo_estudo |-> t, loaded |-> ld]]
    /\ UNCHANGED <<committed, gemini, exchanges, chatbot, classified, backend, now, usuarios, trilhas, conteudos, user_trilha,
                   desempenhos, nextId, queues, supplied, result>>

\* worker s finishes its call
UpCommit(s) ==
    LET a == session[s] IN
    /\ a.pc = "queried"
    /\ Commit(a.user_id, a.conteudo_id, a.progresso, a.nota, a.tempo_estudo, a.loaded)
    /\ session' = [session EXCEPT ![s] = IdleSession]
    /\ UNCHANGED <<committed, gemini, exchanges, chatbot, classified, backend, now, usuarios, trilhas, conteudos, user_trilha, queues>>

\* the wall clock advances
Tick ==
    /\ now < MaxNow
    /\ now' = now + 1
    /\ UNCHANGED <<committed, gemini, exchanges, chatbot, classified, backend, usuarios, trilhas, conteudos, user_trilha,
                   desempenhos, nextId, session, queues, supplied, result>>

-----------------------------------------------------------------------------
(* Analytics aggregator: DesempenhoRepository read operations *)

\* the empty dict {}
EmptyDict == <<>>

NoDataMessage == "No learning data available"

\* len([d for d in ds if d.progresso >= 100])
Completed(ds) == Cardinality({d \in ds : d.progresso >= 100})

\* [d for d in ds if d.nota is not None]
Graded(ds) == {d \in ds : d.nota # NULL}

\* round(sum(d.progresso for d in ds) / len(ds), 2) if ds else 0, in hundredths
AvgProgress(ds) ==
    IF ds = {} THEN 0
    ELSE RoundDiv(SumOver([d \in ds |-> d.progresso], ds) * 100, Cardinality(ds))

AvgGrade_overAll(ds) ==
    IF Graded(ds) = {} THEN 0
    ELSE RoundDiv(SumOver([d \in Graded(ds) |-> d.nota], Graded(ds)) * 100,
                  Cardinality(ds))

\* round(sum of the non-null grades / their number, 2), 0 without a grade
AvgGrade(ds) ==
    IF Graded(ds) = {} THEN 0
    ELSE RoundDiv(SumOver([d \in Graded(ds) |-> d.nota], Graded(ds)) * 100,
                  Cardinality(Graded(ds)))

\* sum(d.tempo_estudo for d in ds)
StudyTime(ds) == SumOver([d \in ds |-> d.tempo_estudo], ds)

\* round(completed / total * 100, 2), in hundredths of a percent
CompletionRate(completed, total) == RoundDiv(completed * 10000, total)

get_user_trilha_progress_overRecorded(user_id, trilha_id) ==
    LET cs == {c \in DOMAIN conteudos : conteudos[c] = trilha_id}
        ds == {d \in desempenhos : d.usuario_id = user_id /\ d.conteudo_id \in cs}
        rs == {d.conteudo_id : d \in ds}
    IN  IF cs = {} THEN EmptyDict
        ELSE [user_id |-> user_id,
              trilha_id |-> trilha_id,
              total_content |-> Cardinality(rs),
              completed_content |-> Completed(ds),
              completion_rate |->
                  IF rs = {} THEN 0 ELSE CompletionRate(Completed(ds), Cardinality(rs)),
              average_progress |-> AvgProgress(ds),
              average_grade |-> AvgGrade(ds),
              total_study_time_minutes |-> StudyTime(ds),
              total_study_time_hours |-> RoundDiv(StudyTime(ds) * 100, 60)]

get_user_trilha_progress(user_id, trilha_id) ==
    LET cs == {c \in DOMAIN conteudos : conteudos[c] = trilha_id}
        ds == {d \in desempenhos : d.usuario_id = user_id /\ d.conteudo_id \in cs}
    IN  IF cs = {} THEN EmptyDict
        ELSE [user_id |-> user_id,
              trilha_id |-> trilha_id,
              total_content |-> Cardinality(cs),
              completed_content |-> Completed(ds),
              completion_rate |-> CompletionRate(Completed(ds), Cardinality(cs)),
              average_progress |-> AvgProgress(ds),
              average_grade |-> AvgGrade(ds),
              total_study_time_minutes |-> StudyTime(ds),
              total_study_time_hours |-> RoundDiv(StudyTime(ds) * 100, 60)]

RECURSIVE SortedDesc(_)
\* ORDER BY ... DESC of a set of dates
SortedDesc(S) ==
    IF S = {} THEN <<>>
    ELSE LET m == CHOOSE x \in S : \A y \in S : y <= x
         IN  <<m>> \o SortedDesc(S \ {m})

\* SELECT DISTINCT date(updated_at) ... ORDER BY date(updated_at) DESC:
\* PostgreSQL sorts NULL first in descending order, SQLite sorts it last
ActivityDates(user_id) ==
    LET all   == {DateOf(d.updated_at) : d \in {x \in desempenhos : x.usuario_id = user_id}}
        dated == SortedDesc(all \ {NULL})
        nulls == IF NULL \in all THEN <<NULL>> ELSE <<>>
    IN  IF backend = "postgresql" THEN nulls \o dated ELSE dated \o nulls

\* activity_date == some_date: psycopg2 returns datetime.date objects, the
\* SQLite driver returns the untyped date() result as a string, which never
\* equals a datetime.date; None equals no date
DateEq(activity_date, some_date) ==
    /\ backend = "postgresql"
    /\ activity_date # NULL
    /\ activity_date = some_date

RECURSIVE StreakLoop(_, _, _, _)
\* the for loop over activity_dates from position i on
StreakLoop(dates, i, streak, current_date) ==
    IF i > Len(dates) THEN streak
    ELSE IF \/ DateEq(dates[i], current_date)
            \/ DateEq(dates[i], current_date - streak)
         THEN StreakLoop(dates, i + 1, streak + 1, dates[i])
         ELSE streak

Streak_fromLastActive(dates, today) ==
    IF dates = <<>> THEN 0
    ELSE StreakLoop(dates, 1, 0, IF dates[1] = NULL THEN today ELSE dates[1])

\* the body of _calculate_learning_streak on the fetched dates
Streak(dates, today) ==
    IF dates = <<>> THEN 0 ELSE StreakLoop(dates, 1, 0, today)

calculate_learning_streak(user_id) == Streak(ActivityDates(user_id), DateOf(now))

\* the all-zero summary the users router substitutes
DefaultAnalytics(user_id, days) ==
    [user_id |-> user_id,
     analysis_period_days |-> days,
     total_activities |-> 0,
     recent_activities |-> 0,
     completed_activities |-> 0,
     recent_completed |-> 0,
     completion_rate |-> 0,
     average_progress_all_time |-> 0,
     average_progress_recent |-> 0,
     average_grade_all_time |-> 0,
     average_grade_recent |-> 0,
     total_study_time_hours |-> 0,
     recent_study_time_hours |-> 0,
     daily_average_study_time |-> 0,
     learning_streak |-> 0]

\* the metrics computed when the user has records
AnalyticsSummary(user_id, days) ==
    LET all    == {d \in desempenhos : d.usuario_id = user_id}
        cutoff == now - Days(days)
        recent == {d \in all : d.updated_at # NULL /\ d.updated_at >= cutoff}
    IN       [user_id |-> user_id,
              analysis_period_days |-> days,
              total_activities |-> Cardinality(all),
              recent_activities |-> Cardinality(recent),
              completed_activities |-> Completed(all),
              recent_completed |-> Completed(recent),
              completion_rate |-> CompletionRate(Completed(all), Cardinality(all)),
              average_progress_all_time |-> AvgProgress(all),
              average_progress_recent |-> AvgProgress(recent),
              average_grade_all_time |-> AvgGrade(all),
              average_grade_recent |-> AvgGrade(recent),
              total_study_time_hours |-> RoundDiv(StudyTime(all) * 100, 60),
              recent_study_time_hours |-> RoundDiv(StudyTime(recent) * 100, 60),
              daily_average_study_time |->
                  IF days > 0 THEN RoundDiv(StudyTime(recent) * 100, days * 60) ELSE 0,
              learning_streak |-> calculate_learning_streak(user_id)]

get_learning_analytics_zeros(user_id, days) ==
    IF {d \in desempenhos : d.usuario_id = user_id} = {}
    THEN [message |-> NoDataMessage] @@ DefaultAnalytics(user_id, days)
    ELSE AnalyticsSummary(user_id, days)

get_learning_analytics(user_id, days) ==
    IF {d \in desempenhos : d.usuario_id = user_id} = {}
    THEN [user_id |-> user_id, message |-> NoDataMessage]
    ELSE AnalyticsSummary(user_id, days)

\* GET /users/{user_id}/analytics
get_user_analytics(user_id, days) ==
    LET analytics == get_learning_analytics(user_id, days)
    IN  [success |-> TRUE,
         data |-> IF DOMAIN analytics = {} \/ "message" \in DOMAIN analytics
                  THEN DefaultAnalytics(user_id, days)
                  ELSE analytics]

-----------------------------------------------------------------------------
(* Initial stores *)

NoResult == [op |-> "none"]

\* no ChatbotService has been built: the chatbot module is not imported
NoChatbot == [intent_order |-> <<>>]
\* the client has made no call and no model call is running
NoGemini == [calls |-> <<>>, thread |-> "none"]

EmptyQueues == [notifications |-> <<>>, analytics |-> <<>>]

\* one learner, one path with two content items, no performance record yet
InitSeq ==
    /\ backend = "postgresql"
    /\ chatbot = NoChatbot
    /\ gemini = NoGemini
    /\ exchanges = <<>>
    /\ committed = <<>>
    /\ classified = <<>>
    /\ now = 0
    /\ usuarios = (1 :> "beginner")
    /\ trilhas = (1 :> "beginner")
    /\ conteudos = (1 :> 1 @@ 2 :> 1)
    /\ user_trilha = {<<1, 1>>}
    /\ desempenhos = {}
    /\ nextId = 1
    /\ session = [s \in Sessions |-> IdleSession]
    /\ queues = EmptyQueues
    /\ supplied = [k \in UserIds \X ConteudoIds |-> {}]
    /\ result = NoResult

\* update_progress calls issued one after the other
CallSeq ==
    \E u \in DOMAIN usuarios, c \in DOMAIN conteudos,
       p \in Progressos, n \in Notas, t \in Tempos :
        update_progress(u, c, p, n, t)

NextSeq == CallSeq \/ Tick

SpecSeq == InitSeq /\ [][NextSeq]_vars

\* one learner, one path with a single content item
InitConc ==
    /\ backend = "postgresql"
    /\ chatbot = NoChatbot
    /\ gemini = NoGemini
    /\ exchanges = <<>>
    /\ committed = <<>>
    /\ classified = <<>>
    /\ now = 0
    /\ usuarios = (1 :> "beginner")
    /\ trilhas = (1 :> "beginner")
    /\ conteudos = (1 :> 1)
    /\ user_trilha = {<<1, 1>>}
    /\ desempenhos = {}
    /\ nextId = 1
    /\ session = [s \in Sessions |-> IdleSession]
    /\ queues = EmptyQueues
    /\ supplied = [k \in UserIds \X ConteudoIds |-> {}]
    /\ result = NoResult

\* update_progress calls of two workers, interleaved at the database
CallConc ==
    \E s \in Sessions, u \in DOMAIN usuarios, c \in DOMAIN conteudos, p \in Progressos :
        UpQuery(s, u, c, p, NULL, NULL)

ReturnConc == \E s \in Sessions : UpCommit(s)

\* read requests; they leave the store as it is
GetTrilhaProgress ==
    /\ \E u \in UserIds, t \in TrilhaIds :
         result' = [op |-> "get_user_trilha_progress", user_id |-> u, trilha_id |-> t,
                    value |-> get_user_trilha_progress(u, t)]
    /\ UNCHANGED <<committed, gemini, exchanges, chatbot, classified, backend, now, usuarios, trilhas, conteudos, user_trilha,
                   desempenhos, nextId, session, queues, supplied>>

GetAnalytics ==
    /\ \E u \in UserIds, days \in DaysArgs :
         result' = [op |-> "get_learning_analytics", user_id |-> u, days |-> days,
                    value |-> get_learning_analytics(u, days)]
    /\ UNCHANGED <<committed, gemini, exchanges, chatbot, classified, backend, now, usuarios, trilhas, conteudos, user_trilha,
                   desempenhos, nextId, session, queues, supplied>>

GetUserAnalytics ==
    /\ \E u \in UserIds, days \in DaysArgs :
         result' = [op |-> "get_user_analytics", user_id |-> u, days |-> days,
                    value |-> get_user_analytics(u, days)]
    /\ UNCHANGED <<committed, gemini, exchanges, chatbot, classified, backend, now, usuarios, trilhas, conteudos, user_trilha,
                   desempenhos, nextId, session, queues, supplied>>

CalcStreak ==
    /\ \E u \in UserIds :
         result' = [op |-> "calculate_learning_streak", user_id |-> u,
                    value |-> calculate_learning_streak(u)]
    /\ UNCHANGED <<committed, gemini, exchanges, chatbot, classified, backend, now, usuarios, trilhas, conteudos, user_trilha,
                   desempenhos, nextId, session, queues, supplied>>

NextConc == CallConc \/ ReturnConc \/ GetTrilhaProgress \/ GetAnalytics \/ GetUserAnalytics

SpecConc == InitConc /\ [][NextConc]_vars

\* A store as days of use leave it: learner 1 has touched some of the content
\* items, each last updated on some day up to today or created and never
\* updated (updated_at NULL).
InitStreak ==
    /\ backend \in Backends
    /\ chatbot = NoChatbot
    /\ gemini = NoGemini
    /\ exchanges = <<>>
    /\ committed = <<>>
    /\ classified = <<>>
    /\ \E today \in 0..MaxDay :
         /\ now = today * TicksPerDay
         /\ \E touched \in SUBSET (1..StreakContents) :
            \E f \in [touched -> {NULL} \cup 0..today] :
              /\ desempenhos =
                   {[id |-> c, usuario_id |-> 1, conteudo_id |-> c, progresso |-> 100,
                     nota |-> NULL, tempo_estudo |-> 0,
                     updated_at |-> IF f[c] = NULL THEN NULL ELSE f[c] * TicksPerDay] :
                    c \in touched}
    /\ usuarios = (1 :> "beginner")
    /\ trilhas = (1 :> "beginner")
    /\ conteudos = [c \in 1..StreakContents |-> 1]
    /\ user_trilha = {<<1, 1>>}
    /\ nextId = StreakContents + 1
    /\ session = [s \in Sessions |-> IdleSession]
    /\ queues = EmptyQueues
    /\ supplied = <<>>
    /\ result = NoResult

NextStreak == CalcStreak \/ GetAnalytics

SpecStreak == InitStreak /\ [][NextStreak]_vars

-----------------------------------------------------------------------------
\* C1: after any sequence of update_progress calls on a (user, content) pair
\* the stored progress is the maximum of the progress values supplied so far.
C1_ProgressIsMaxSupplied ==
        \A d \in desempenhos :
            LET S == supplied[<<d.usuario_id, d.conteudo_id>>]
            IN  /\ d.progresso \in S
                /\ \A p \in S : p <= d.progresso

\* an update with a lower value has returned and the stored value stayed higher
C1_Witness ==
    /\ result.op = "update_progress"
    /\ ~result.created
    /\ result.progresso < result.row.progresso
    /\ result.row \in desempenhos

\* C2: two concurrent update_progress calls on one existing record leave
\* max(p0, p1, p2) stored, under every interleaving (original statement).
C2_ConcurrentProgressIsMax ==
    AllIdle =>
        \A u \in UserIds, c \in ConteudoIds :
            Cardinality(RowsOf(u, c)) = 1 =>
                \A d \in RowsOf(u, c) : \A p \in supplied[<<u, c>>] : p <= d.progresso

\* C3: at most one performance record per (user_id, content_id) pair.
C3_UniquePerUserContent ==
    \A u \in UserIds, c \in ConteudoIds : Cardinality(RowsOf(u, c)) <= 1

-----------------------------------------------------------------------------
(* Recommendation composer *)

Difficulties == {"beginner", "intermediate", "advanced"}

\* [:3] of the tier-matched paths, [:2] of the popular ones
TopTier == 3
TopPopular == 2
RecommendedLimit == 10
PopularLimit == 5
\* thresholds of the habit rules, in hundredths
MinDailyStudy == 50
MinStreak == 3
MinCompletionRate == 7000

\* opaque prose returned by the text-generation service
AiText == "ai generated text"
FallbackText ==
    "Unable to generate recommendations at this time. Please try again later."
\* an exception leaving a call
RAISED == "raised"
AiOutcomes == {"ok", "raises"}
\* user ids recommendations are requested for: learner 1 and an unknown id
RecCallers == {1, 3}

Min(a, b) == IF a <= b THEN a ELSE b

\* the sequences of n distinct elements of S
Arrangements(S, n) ==
    {q \in [1..n -> S] : \A i, j \in 1..n : i # j => q[i] # q[j]}

TierSet_all(perfil) == Difficulties

\* the difficulty filter of get_recommended_trilhas_for_user
TierSet(perfil) ==
    IF perfil = NullStr \/ perfil = "" THEN Difficulties
    ELSE IF perfil = "beginner" THEN {"beginner", "intermediate"}
    ELSE IF perfil = "intermediate" THEN {"intermediate", "advanced"}
    ELSE {"advanced"}

Enrolled(user_id) == {t \in DOMAIN trilhas : <<user_id, t>> \in user_trilha}

TierMatches_enrolledToo(user_id) ==
    {t \in DOMAIN trilhas : trilhas[t] \in TierSet(usuarios[user_id])}

\* paths the user is not enrolled in whose difficulty passes the filter
TierMatches(user_id) ==
    {t \in DOMAIN trilhas : /\ t \notin Enrolled(user_id)
                            /\ trilhas[t] \in TierSet(usuarios[user_id])}

\* the lists query.limit(limit).all() can return: no ORDER BY
get_recommended_trilhas_for_user(user_id, limit) ==
    IF user_id \notin DOMAIN usuarios THEN {<<>>}
    ELSE Arrangements(TierMatches(user_id), Min(limit, Cardinality(TierMatches(user_id))))

\* func.count(Usuario.id) of the outer join
EnrollmentCount(t) ==
    Cardinality({u \in DOMAIN usuarios : <<u, t>> \in user_trilha})

\* the lists get_popular_trilhas can return: descending enrollment count,
\* ties in any order, cut at limit
get_popular_trilhas(limit) ==
    LET n == Min(limit, Cardinality(DOMAIN trilhas))
    IN  {q \in Arrangements(DOMAIN trilhas, n) :
            /\ \A i \in 1..(n - 1) : EnrollmentCount(q[i]) >= EnrollmentCount(q[i + 1])
            /\ \A t \in DOMAIN trilhas :
                 (\A i \in 1..n : q[i] # t) => EnrollmentCount(t) <= EnrollmentCount(q[n])}

generate_learning_recommendations_propagates(outcome) ==
    IF outcome = "raises" THEN RAISED ELSE AiText

generate_learning_recommendations_empty(outcome) ==
    IF outcome = "raises" THEN "" ELSE AiText

\* GeminiClient.generate_learning_recommendations: the model call either
\* answers or raises, and a raise is answered by the fixed message
generate_learning_recommendations(outcome) ==
    IF outcome = "raises" THEN FallbackText ELSE AiText

\* analytics.get(field, 0)
GetOr0(analytics, field) ==
    IF field \in DOMAIN analytics THEN analytics[field] ELSE 0

generate_habit_recommendations_inclusive(analytics) ==
    (IF GetOr0(analytics, "daily_average_study_time") <= MinDailyStudy
     THEN <<[type |-> "study_habit", title |-> "Increase Daily Study Time", priority |-> "high"]>>
     ELSE <<>>)
    \o
    (IF GetOr0(analytics, "learning_streak") <= MinStreak
     THEN <<[type |-> "consistency", title |-> "Build Learning Consistency", priority |-> "medium"]>>
     ELSE <<>>)
    \o
    (IF GetOr0(analytics, "completion_rate") <= MinCompletionRate
     THEN <<[type |-> "completion", title |-> "Focus on Completing Content", priority |-> "medium"]>>
     ELSE <<>>)

generate_habit_recommendations(analytics) ==
    (IF GetOr0(analytics, "daily_average_study_time") < MinDailyStudy
     THEN <<[type |-> "study_habit", title |-> "Increase Daily Study Time", priority |-> "high"]>>
     ELSE <<>>)
    \o
    (IF GetOr0(analytics, "learning_streak") < MinStreak
     THEN <<[type |-> "consistency", title |-> "Build Learning Consistency", priority |-> "medium"]>>
     ELSE <<>>)
    \o
    (IF GetOr0(analytics, "completion_rate") < MinCompletionRate
     THEN <<[type |-> "completion", title |-> "Focus on Completing Content", priority |-> "medium"]>>
     ELSE <<>>)

TrilhaEntry(t, confidence, source) ==
    [type |-> "trilha", id |-> t, dificuldade |-> trilhas[t],
     confidence |-> confidence, source |-> source]

AddPopular_noDedup(recs, popular, i) ==
    recs \o [j \in 1..Min(TopPopular, Len(popular)) |->
                TrilhaEntry(popular[j], 75, "popularity_based")]

RECURSIVE AddPopular(_, _, _)
\* the loop over popular_trilhas[:2] from position i on
AddPopular(recs, popular, i) ==
    IF i > Min(TopPopular, Len(popular)) THEN recs
    ELSE IF popular[i] \in {recs[j].id : j \in 1..Len(recs)}
         THEN AddPopular(recs, popular, i + 1)
         ELSE AddPopular(Append(recs, TrilhaEntry(popular[i], 75, "popularity_based")),
                         popular, i + 1)

\* _process_ai_recommendations, given the lists its two queries returned
process_ai_recommendations(user_id, ai_text, analytics, available, popular) ==
    LET tier  == [i \in 1..Min(TopTier, Len(available)) |->
                     TrilhaEntry(available[i], 85, "ai_analysis")]
        recs  == AddPopular(tier, popular, 1)
        habit == generate_habit_recommendations(analytics)
    IN  [content_recommendations |-> recs,
         habit_recommendations |-> habit,
         ai_insights |-> ai_text,
         total_recommendations |-> Len(recs) + Len(habit)]

\* the value generate_personalized_recommendations returns
generate_personalized_recommendations(user_id, outcome, available, popular) ==
    IF user_id \notin DOMAIN usuarios
    THEN [success |-> FALSE, error |-> "User not found"]
    ELSE LET analytics == get_learning_analytics(user_id, 30)
             ai        == generate_learning_recommendations(outcome)
         IN  IF ai = RAISED
             THEN [success |-> FALSE, error |-> "Failed to generate recommendations"]
             ELSE [success |-> TRUE,
                   user_id |-> user_id,
                   ai_recommendations |-> ai,
                   structured_recommendations |->
                       process_ai_recommendations(user_id, ai, analytics, available, popular),
                   model_used |-> "gemini-pro"]

\* AnalyticsService.track_event -> MessageQueue.publish("analytics", ...)
Track(event_type, user_id) ==
    [queues EXCEPT !.analytics = Append(@, [event_type |-> event_type, user_id |-> user_id])]

\* a whole request: collect, call the text generation, compose, track, return
GenerateRecommendations ==
    /\ \E u \in RecCallers, outcome \in AiOutcomes :
       \E available \in get_recommended_trilhas_for_user(u, RecommendedLimit),
          popular \in get_popular_trilhas(PopularLimit) :
         LET value == generate_personalized_recommendations(u, outcome, available, popular)
         IN  /\ result' = [op |-> "generate_personalized_recommendations", user_id |-> u,
                           outcome |-> outcome, value |-> value]
             /\ gemini' = [gemini EXCEPT !.calls =
                              IF u \in DOMAIN usuarios
                              THEN <<"generate_learning_recommendations">> ELSE <<>>]
             /\ IF value.success
                THEN /\ Len(queues.analytics) < MaxQueue
                     /\ queues' = Track("ai_recommendations_generated", u)
                ELSE queues' = queues
    /\ UNCHANGED <<committed, exchanges, chatbot, classified, backend, now, usuarios, trilhas, conteudos, user_trilha,
                   desempenhos, nextId, session, supplied>>

\* AnalyticsService.process_analytics: consume up to 100 queued events
ProcessAnalytics ==
    /\ queues.analytics # <<>>
    /\ queues' = [queues EXCEPT !.analytics = <<>>]
    /\ UNCHANGED <<committed, gemini, exchanges, chatbot, classified, backend, now, usuarios, trilhas, conteudos, user_trilha,
                   desempenhos, nextId, session, supplied, result>>

\* catalogs of four paths: mixed difficulties, two tiers, one tier
Catalogs ==
    {<<"beginner", "intermediate", "advanced", "advanced">>,
     <<"beginner", "beginner", "intermediate", "intermediate">>,
     <<"advanced", "advanced", "advanced", "advanced">>}

\* learner 1 of any profile, enrolled in nothing, in the most popular path or
\* in the last one; learner 2 enrolled in the first path or the first two
InitRec ==
    /\ backend = "postgresql"
    /\ chatbot = NoChatbot
    /\ gemini = NoGemini
    /\ exchanges = <<>>
    /\ committed = <<>>
    /\ classified = <<>>
    /\ now = 0
    /\ \E perfil \in Difficulties \cup {NullStr} :
         usuarios = (1 :> perfil @@ 2 :> "beginner")
    /\ trilhas \in Catalogs
    /\ conteudos = (1 :> 1 @@ 2 :> 1)
    /\ \E e1 \in {{}, {1}, {4}}, e2 \in {{1}, {1, 2}} :
         user_trilha = ({1} \X e1) \cup ({2} \X e2)
    /\ desempenhos = {}
    /\ nextId = 1
    /\ session = [s \in Sessions |-> IdleSession]
    /\ queues = EmptyQueues
    /\ supplied = <<>>
    /\ result = NoResult

NextRec == GenerateRecommendations \/ ProcessAnalytics

SpecRec == InitRec /\ [][NextRec]_vars

\* the content_recommendations of a returned recommendation set
ContentRecs(r) == r.value.structured_recommendations.content_recommendations

\* C7: success and a non-empty content_recommendations whenever the user
\* exists and some path the user is not enrolled in matches the user's tier,
\* also when the text-generation call raises.
C7_NonEmptyWhenTierMatchExists ==
    (/\ result.op = "generate_personalized_recommendations"
     /\ result.user_id \in DOMAIN usuarios
     /\ TierMatches(result.user_id) # {}) =>
        /\ result.value.success
        /\ Len(ContentRecs(result)) > 0

\* the text generation raised for a user with a tier-matched path
C7_Witness ==
    /\ result.op = "generate_personalized_recommendations"
    /\ result.outcome = "raises"
    /\ result.user_id \in DOMAIN usuarios
    /\ TierMatches(result.user_id) # {}
    /\ result.value.success
    /\ Len(ContentRecs(result)) > 0

\* the text-generation call of the returned request was made and failed
AiCallFailed ==
    /\ result.op = "generate_personalized_recommendations"
    /\ result.outcome = "raises"
    /\ result.user_id \in DOMAIN usuarios

\* C8: when the text-generation call fails the result has success = true,
\* carries the structured recommendations, and its AI-insights fields are
\* empty or absent (original statement).
C8_AiInsightsEmptyOnFailure ==
    AiCallFailed =>
        /\ result.value.success
        /\ "structured_recommendations" \in DOMAIN result.value
        /\ ("ai_recommendations" \in DOMAIN result.value
               => result.value.ai_recommendations = "")
        /\ ("ai_insights" \in DOMAIN result.value.structured_recommendations
               => result.value.structured_recommendations.ai_insights = "")

\* C8 amended: when the text-generation call fails the result has
\* success = true, carries the structured recommendations, and both
\* AI-insights fields hold the fixed fallback message.
C8_AiInsightsFallbackOnFailure ==
    AiCallFailed =>
        /\ result.value.success
        /\ {"content_recommendations", "habit_recommendations"}
               \subseteq DOMAIN result.value.structured_recommendations
        /\ result.value.ai_recommendations = FallbackText
        /\ result.value.structured_recommendations.ai_insights = FallbackText

\* a failed text generation has been answered with structured recommendations
C8_Witness ==
    /\ AiCallFailed
    /\ result.value.success
    /\ Len(ContentRecs(result)) > 0
    /\ result.value.ai_recommendations = FallbackText

-----------------------------------------------------------------------------
(* Learning streak *)

\* the distinct calendar dates on which the user has activity
DatedActivity(u) ==
    {DateOf(d.updated_at) : d \in {x \in desempenhos : x.usuario_id = u /\ x.updated_at # NULL}}

HasUndated(u) == \E d \in desempenhos : d.usuario_id = u /\ d.updated_at = NULL

Today == DateOf(now)

MostRecent(S) == CHOOSE x \in S : \A y \in S : y <= x

RECURSIVE RunFrom(_, _)
\* number of consecutive days of S ending at day d
RunFrom(S, d) == IF d \in S THEN 1 + RunFrom(S, d - 1) ELSE 0

\* the streak has been computed for a user on a typed-date backend, every
\* record of the user carrying a date
StreakComputed ==
    /\ result.op = "calculate_learning_streak"
    /\ backend = "postgresql"
    /\ ~HasUndated(result.user_id)

\* C4: activity on exactly the k consecutive days today, ..., today-(k-1)
\* gives learning_streak = k, for every k >= 0 (original statement).
C4_StreakOfKConsecutiveDays ==
    StreakComputed =>
        \A k \in 0..StreakContents :
            DatedActivity(result.user_id) = {Today - i : i \in 0..(k - 1)}
                => result.value = k

\* C5: when the most recent activity date d is before today, the streak is
\* the run of consecutive active days ending at d, hence >= 1 (original statement).
C5_StreakCountsFromLastActiveDay ==
    StreakComputed =>
        LET S == DatedActivity(result.user_id)
        IN  (S # {} /\ MostRecent(S) < Today) => result.value = RunFrom(S, MostRecent(S))

\* C5 amended: when the most recent activity date is before today, the
\* streak is 0, whatever run of active days ended there.
C5_InactiveTodayGivesZero ==
    result.op = "calculate_learning_streak" =>
        LET S == DatedActivity(result.user_id)
        IN  (S # {} /\ MostRecent(S) < Today) => result.value = 0

\* the streak of a user active on two consecutive days ending yesterday or
\* earlier has been computed
C5_Witness ==
    /\ StreakComputed
    /\ LET S == DatedActivity(result.user_id)
       IN  /\ S # {}
           /\ MostRecent(S) < Today
           /\ RunFrom(S, MostRecent(S)) >= 2
    /\ result.value = 0

\* C6: the streak never exceeds the run of consecutive calendar days ending
\* at the most recent activity date (original statement).
C6_StreakStopsAtFirstGap ==
    StreakComputed =>
        LET S == DatedActivity(result.user_id)
        IN  S # {} => result.value <= RunFrom(S, MostRecent(S))

-----------------------------------------------------------------------------
(* Analytics of a learner without records, completion rates *)

NumericFields ==
    {"total_activities", "recent_activities", "completed_activities", "recent_completed",
     "completion_rate", "average_progress_all_time", "average_progress_recent",
     "average_grade_all_time", "average_grade_recent", "total_study_time_hours",
     "recent_study_time_hours", "daily_average_study_time", "learning_streak"}

RowsOfUser(u) == {d \in desempenhos : d.usuario_id = u}

\* C9: for a user without records get_learning_analytics returns every
\* numeric field, each zero, together with the no-data marker (original statement).
C9_NoRecordsAllZeroWithMarker ==
    (result.op = "get_learning_analytics" /\ RowsOfUser(result.user_id) = {}) =>
        /\ "message" \in DOMAIN result.value
        /\ NumericFields \subseteq DOMAIN result.value
        /\ \A f \in NumericFields : result.value[f] = 0

\* C9 amended: for a user without records get_learning_analytics returns only
\* the user id and the no-data marker, no numeric field; the analytics
\* endpoint get_user_analytics replaces that by the summary with every
\* numeric field zero, and without the marker.
C9_NoRecordsMarkerOnly ==
    /\ (result.op = "get_learning_analytics" /\ RowsOfUser(result.user_id) = {}) =>
          /\ DOMAIN result.value = {"user_id", "message"}
          /\ result.value.user_id = result.user_id
          /\ result.value.message = NoDataMessage
    /\ (result.op = "get_user_analytics" /\ RowsOfUser(result.user_id) = {}) =>
          /\ result.value.success
          /\ "message" \notin DOMAIN result.value.data
          /\ NumericFields \subseteq DOMAIN result.value.data
          /\ \A f \in NumericFields : result.value.data[f] = 0

\* the analytics of a learner without records have been requested while
\* other learners' records exist
C9_Witness ==
    /\ result.op = "get_learning_analytics"
    /\ RowsOfUser(result.user_id) = {}
    /\ desempenhos # {}
    /\ "message" \in DOMAIN result.value

\* C10: the completion_rate of get_user_trilha_progress and of
\* get_learning_analytics lies in [0, 100], and get_user_trilha_progress
\* reports 0 for a path none of whose content items the user has a record for.
C10_CompletionRateInRange ==
    /\ (result.op = "get_user_trilha_progress" /\ "completion_rate" \in DOMAIN result.value) =>
          /\ result.value.completion_rate >= 0
          /\ result.value.completion_rate <= 10000
    /\ (result.op = "get_learning_analytics" /\ "completion_rate" \in DOMAIN result.value) =>
          /\ result.value.completion_rate >= 0
          /\ result.value.completion_rate <= 10000
    /\ \A u \in UserIds, t \in DOMAIN trilhas :
          (\A d \in RowsOfUser(u) : conteudos[d.conteudo_id] # t) =>
              LET r == get_user_trilha_progress(u, t)
              IN  "completion_rate" \in DOMAIN r => r.completion_rate = 0

-----------------------------------------------------------------------------
(* Progress on a learning path: updates made one after the other, then the  *)
(* two summaries                                                            *)

PathProgressos == {40, 100}
PathNotas == {NULL, 70, 90}

CallPath ==
    \E u \in DOMAIN usuarios, c \in DOMAIN conteudos,
       p \in PathProgressos, n \in PathNotas :
        update_progress(u, c, p, n, NULL)

NextPath == CallPath \/ GetTrilhaProgress \/ GetAnalytics \/ Tick

\* the store of InitSeq: one learner, path 1 with content items 1 and 2
SpecPath == InitSeq /\ [][NextPath]_vars

\* the content items of a path
ItemsOf(t) == {c \in DOMAIN conteudos : conteudos[c] = t}

\* the user's records on the content items of a path
RowsOnPath(u, t) == {d \in RowsOfUser(u) : d.conteudo_id \in ItemsOf(t)}

\* r is n / d rounded to the nearest integer (d > 0)
IsRounded(r, n, d) == 2 * r * d - 2 * n <= d /\ 2 * n - 2 * r * d <= d

\* a path summary has been returned for a path with content items
PathSummaryReturned ==
    /\ result.op = "get_user_trilha_progress"
    /\ ItemsOf(result.trilha_id) # {}

\* C11: completion_rate of a path is the number of completed records over the
\* number of the path's content items the user has a record for, times 100
\* (original statement).
C11_RateOverRecordedItems ==
    PathSummaryReturned =>
        LET ds       == RowsOnPath(result.user_id, result.trilha_id)
            recorded == {d.conteudo_id : d \in ds}
            done     == {d.conteudo_id : d \in {x \in ds : x.progresso >= 100}}
        IN  recorded # {} =>
                IsRounded(result.value.completion_rate,
                          Cardinality(done) * 10000, Cardinality(recorded))

\* C11 amended: completion_rate of a path is the number of the user's
\* completed content items over the number of all content items of the path,
\* with or without a record, times 100 and rounded to two decimals.
C11_RateOverAllItems ==
    PathSummaryReturned =>
        LET ds   == RowsOnPath(result.user_id, result.trilha_id)
            done == {d.conteudo_id : d \in {x \in ds : x.progresso >= 100}}
        IN  /\ result.value.total_content = Cardinality(ItemsOf(result.trilha_id))
            /\ result.value.completed_content = Cardinality(done)
            /\ IsRounded(result.value.completion_rate,
                         Cardinality(done) * 10000,
                         Cardinality(ItemsOf(result.trilha_id)))

\* the summary of a path of which the learner has completed the one item
\* touched so far
C11_Witness ==
    /\ PathSummaryReturned
    /\ LET ds == RowsOnPath(result.user_id, result.trilha_id)
       IN  /\ Cardinality(ds) = 1
           /\ Cardinality(ItemsOf(result.trilha_id)) = 2
           /\ \A d \in ds : d.progresso = 100
    /\ result.value.completion_rate = 5000

\* the mean of f over the rows ds, in hundredths, is m (0 for no rows)
IsMean(m, f, ds) ==
    IF ds = {} THEN m = 0
    ELSE IsRounded(m, SumOver(f, ds) * 100, Cardinality(ds))

\* the user's records updated within the trailing days
RecentRows(u, days) ==
    {d \in RowsOfUser(u) : d.updated_at # NULL /\ d.updated_at >= now - days * TicksPerDay}

\* the store holds exactly the records {content 1, progress 100, grade 90}
\* and {content 2, progress 40, no grade} of learner 1
ExampleRecords ==
    /\ Cardinality(desempenhos) = 2
    /\ \E d \in desempenhos :
         d.usuario_id = 1 /\ d.conteudo_id = 1 /\ d.progresso = 100 /\ d.nota = 90
    /\ \E d \in desempenhos :
         d.usuario_id = 1 /\ d.conteudo_id = 2 /\ d.progresso = 40 /\ d.nota = NULL

\* C12: average progress is the mean over all records in scope, average
\* grade the mean over the records with a grade (0 without any), in the path
\* summary and in the learning analytics; the records {100, grade 90} and
\* {40, no grade} on a 2-item path give 50, 70 and 90.
C12_AveragesOverScope ==
    /\ PathSummaryReturned =>
          LET ds == RowsOnPath(result.user_id, result.trilha_id)
          IN  /\ IsMean(result.value.average_progress, [d \in ds |-> d.progresso], ds)
              /\ IsMean(result.value.average_grade,
                        [d \in Graded(ds) |-> d.nota], Graded(ds))
              /\ (ExampleRecords /\ result.user_id = 1 /\ result.trilha_id = 1) =>
                    /\ result.value.completion_rate = 5000
                    /\ result.value.average_progress = 7000
                    /\ result.value.average_grade = 9000
    /\ (result.op = "get_learning_analytics" /\ RowsOfUser(result.user_id) # {}) =>
          LET all    == RowsOfUser(result.user_id)
              recent == RecentRows(result.user_id, result.days)
          IN  /\ IsMean(result.value.average_progress_all_time,
                        [d \in all |-> d.progresso], all)
              /\ IsMean(result.value.average_progress_recent,
                        [d \in recent |-> d.progresso], recent)
              /\ IsMean(result.value.average_grade_all_time,
                        [d \in Graded(all) |-> d.nota], Graded(all))
              /\ IsMean(result.value.average_grade_recent,
                        [d \in Graded(recent) |-> d.nota], Graded(recent))

\* the path summary of the example records has been returned
C12_Witness ==
    /\ PathSummaryReturned
    /\ ExampleRecords
    /\ result.user_id = 1
    /\ result.value.average_progress = 7000
    /\ result.value.average_grade = 9000

-----------------------------------------------------------------------------
(* Content of a recommendation set *)

\* a recommendation set has been returned to an existing user
RecsReturned ==
    /\ result.op = "generate_personalized_recommendations"
    /\ result.value.success

\* positions of the entries of a given source in content_recommendations
EntriesOf(source) ==
    {i \in 1..Len(ContentRecs(result)) : ContentRecs(result)[i].source = source}

\* the tier progression of the three levels
TierOfLevel(level) ==
    IF level = "beginner" THEN {"beginner", "intermediate"}
    ELSE IF level = "intermediate" THEN {"intermediate", "advanced"}
    ELSE {"advanced"}

\* C13: the tier-matched entries (source ai_analysis) are at most 3, each a
\* path the user is not enrolled in, and for a user of level beginner,
\* intermediate or advanced each has a difficulty of that level's tier set.
C13_TierMatchedUnenrolledInTier ==
    RecsReturned =>
        LET u    == result.user_id
            recs == ContentRecs(result)
        IN  /\ Cardinality(EntriesOf("ai_analysis")) <= 3
            /\ \A i \in EntriesOf("ai_analysis") :
                 /\ recs[i].id \in DOMAIN trilhas
                 /\ <<u, recs[i].id>> \notin user_trilha
                 /\ recs[i].dificuldade = trilhas[recs[i].id]
                 /\ usuarios[u] \in Difficulties =>
                        recs[i].dificuldade \in TierOfLevel(usuarios[u])

\* an enrolled intermediate learner has got a tier-matched entry while a
\* path below the tier exists
C13_Witness ==
    /\ RecsReturned
    /\ usuarios[result.user_id] = "intermediate"
    /\ Enrolled(result.user_id) # {}
    /\ \E t \in DOMAIN trilhas : trilhas[t] = "beginner" /\ t \notin Enrolled(result.user_id)
    /\ EntriesOf("ai_analysis") # {}

\* number of paths with more enrollments than path t
RankOf(t) ==
    Cardinality({x \in DOMAIN trilhas : EnrollmentCount(x) > EnrollmentCount(t)})

\* C14: content_recommendations is at most 3 tier-matched entries followed by
\* at most 2 popularity-based entries, each of these among the 2 paths with
\* the most enrollments, and no path id occurs twice.
C14_TierThenPopularNoDuplicate ==
    RecsReturned =>
        LET recs == ContentRecs(result)
            n    == Len(recs)
        IN  /\ \A i \in 1..n : recs[i].source \in {"ai_analysis", "popularity_based"}
            /\ \A i, j \in 1..n :
                 (recs[i].source = "popularity_based" /\ recs[j].source = "ai_analysis")
                     => j < i
            /\ Cardinality(EntriesOf("ai_analysis")) <= 3
            /\ Cardinality(EntriesOf("popularity_based")) <= 2
            /\ \A i \in EntriesOf("ai_analysis") : recs[i].confidence = 85
            /\ \A i \in EntriesOf("popularity_based") :
                 /\ recs[i].confidence = 75
                 /\ RankOf(recs[i].id) < 2
            /\ \A i, j \in 1..n : i # j => recs[i].id # recs[j].id

\* the path with the most enrollments is among the tier-matched entries and
\* the popularity pass has added another path after them
C14_Witness ==
    /\ RecsReturned
    /\ \E i \in EntriesOf("ai_analysis") : RankOf(ContentRecs(result)[i].id) = 0
    /\ \A t \in DOMAIN trilhas :
         RankOf(t) = 0 => \A x \in DOMAIN trilhas \ {t} : RankOf(x) > 0
    /\ EntriesOf("popularity_based") # {}

-----------------------------------------------------------------------------
(* Habit rules on an analytics summary *)

\* values around the thresholds; NULL stands for a key the dict lacks
DailyStudyValues == {NULL, 0, 49, 50, 51}
StreakValues == {NULL, 0, 2, 3, 4}
CompletionRateValues == {NULL, 0, 6999, 7000, 10000}

\* the dict holding the given fields, without those given as NULL
AnalyticsDict(daily, streak, rate) ==
    LET full == [daily_average_study_time |-> daily,
                 learning_streak |-> streak,
                 completion_rate |-> rate]
        keys == {k \in DOMAIN full : full[k] # NULL}
    IN  [k \in keys |-> full[k]]

\* the composer holds the analytics it collected for learner 1
InitHabit ==
    /\ backend = "postgresql"
    /\ chatbot = NoChatbot
    /\ gemini = NoGemini
    /\ exchanges = <<>>
    /\ committed = <<>>
    /\ classified = <<>>
    /\ now = 0
    /\ usuarios = (1 :> "beginner")
    /\ trilhas = (1 :> "beginner")
    /\ conteudos = (1 :> 1 @@ 2 :> 1)
    /\ user_trilha = {<<1, 1>>}
    /\ desempenhos = {}
    /\ nextId = 1
    /\ session = [s \in Sessions |-> IdleSession]
    /\ queues = EmptyQueues
    /\ supplied = <<>>
    /\ \E daily \in DailyStudyValues, streak \in StreakValues, rate \in CompletionRateValues :
         result = [op |-> "collect_user_data", user_id |-> 1,
                   value |-> AnalyticsDict(daily, streak, rate)]

\* _generate_habit_recommendations applied to the collected analytics
GenerateHabitRecommendations ==
    /\ result.op = "collect_user_data"
    /\ result' = [op |-> "generate_habit_recommendations", user_id |-> result.user_id,
                  analytics |-> result.value,
                  value |-> generate_habit_recommendations(result.value)]
    /\ UNCHANGED <<committed, gemini, exchanges, chatbot, classified, backend, now, usuarios, trilhas, conteudos, user_trilha,
                   desempenhos, nextId, session, queues, supplied>>

NextHabit == GenerateHabitRecommendations

SpecHabit == InitHabit /\ [][NextHabit]_vars

\* the value of an analytics field, 0 when the field is missing
FieldOrZero(a, f) == IF f \in DOMAIN a THEN a[f] ELSE 0

\* the sub-sequence of q at the positions where keep is TRUE
Keep(q, keep) ==
    SelectSeq([i \in 1..Len(q) |-> <<q[i], keep[i]>>], LAMBDA x : x[2])

\* C15: the habit list holds "Increase Daily Study Time" (high) iff the daily
\* average is below 0.5 h, "Build Learning Consistency" (medium) iff the
\* streak is below 3, "Focus on Completing Content" (medium) iff the
\* completion rate is below 70, in that order and nothing else; a missing
\* field counts as 0.
C15_HabitRulesExact ==
    result.op = "generate_habit_recommendations" =>
        LET a    == result.analytics
            keep == << FieldOrZero(a, "daily_average_study_time") < 50,
                       FieldOrZero(a, "learning_streak") < 3,
                       FieldOrZero(a, "completion_rate") < 7000 >>
            all  == << <<"Increase Daily Study Time", "high">>,
                       <<"Build Learning Consistency", "medium">>,
                       <<"Focus on Completing Content", "medium">> >>
            want == Keep(all, keep)
        IN  /\ Len(result.value) = Len(want)
            /\ \A i \in 1..Len(want) :
                 /\ result.value[i].title = want[i][1][1]
                 /\ result.value[i].priority = want[i][1][2]

\* only the consistency rule fired: study time and completion rate at their
\* thresholds, streak below
C15_Witness ==
    /\ result.op = "generate_habit_recommendations"
    /\ result.analytics = AnalyticsDict(50, 2, 7000)
    /\ Len(result.value) = 1
    /\ result.value[1].title = "Build Learning Consistency"

-----------------------------------------------------------------------------
(* Chatbot intent router: the Lua function analyze_user_intent.  A string   *)
(* is the sequence of its characters.                                       *)

UpperCase ==
    <<"A", "B", "C", "D", "E", "F", "G", "H", "I", "J", "K", "L", "M", "N",
      "O", "P", "Q", "R", "S", "T", "U", "V", "W", "X", "Y", "Z">>
LowerCase ==
    <<"a", "b", "c", "d", "e", "f", "g", "h", "i", "j", "k", "l", "m", "n",
      "o", "p", "q", "r", "s", "t", "u", "v", "w", "x", "y", "z">>

\* string.lower on one character
ToLower(c) ==
    IF \E i \in 1..Len(UpperCase) : UpperCase[i] = c
    THEN LowerCase[CHOOSE i \in 1..Len(UpperCase) : UpperCase[i] = c]
    ELSE c

\* string.lower(message)
StringLower(s) == [i \in 1..Len(s) |-> ToLower(s[i])]

\* string.find(s, pattern) ~= nil; the patterns of the table hold letters and
\* spaces only, no magic character, so the match is a plain substring search
StringFind(s, pattern) ==
    \E i \in 1..(Len(s) - Len(pattern) + 1) :
        SubSeq(s, i, i + Len(pattern) - 1) = pattern

\* the table intents: intent -> list of trigger patterns
IntentPatterns ==
    [recommendation |->
        <<<<"r", "e", "c", "o", "m", "m", "e", "n", "d">>,
          <<"s", "u", "g", "g", "e", "s", "t">>,
          <<"w", "h", "a", "t", " ", "s", "h", "o", "u", "l", "d">>,
          <<"h", "e", "l", "p", " ", "m", "e", " ", "f", "i", "n", "d">>>>,
     progress |->
        <<<<"p", "r", "o", "g", "r", "e", "s", "s">>,
          <<"h", "o", "w", " ", "a", "m", " ", "i", " ", "d", "o", "i", "n", "g">>,
          <<"m", "y", " ", "p", "e", "r", "f", "o", "r", "m", "a", "n", "c", "e">>,
          <<"s", "t", "a", "t", "s">>>>,
     help |->
        <<<<"h", "e", "l", "p">>,
          <<"h", "o", "w", " ", "t", "o">>,
          <<"e", "x", "p", "l", "a", "i", "n">>,
          <<"w", "h", "a", "t", " ", "i", "s">>>>,
     greeting |->
        <<<<"h", "e", "l", "l", "o">>,
          <<"h", "i">>,
          <<"h", "e", "y">>,
          <<"g", "o", "o", "d", " ", "m", "o", "r", "n", "i", "n", "g">>,
          <<"g", "o", "o", "d", " ", "a", "f", "t", "e", "r", "n", "o", "o", "n">>>>,
     course_info |->
        <<<<"c", "o", "u", "r", "s", "e">>,
          <<"t", "r", "i", "l", "h", "a">>,
          <<"c", "o", "n", "t", "e", "n", "t">>,
          <<"m", "a", "t", "e", "r", "i", "a", "l">>>>,
     completion |->
        <<<<"c", "o", "m", "p", "l", "e", "t", "e">>,
          <<"f", "i", "n", "i", "s", "h">>,
          <<"d", "o", "n", "e">>,
          <<"c", "o", "m", "p", "l", "e", "t", "e", "d">>>>]

IntentNames == DOMAIN IntentPatterns

\* the order of the table constructor
SourceOrder ==
    <<"recommendation", "progress", "help", "greeting", "course_info", "completion">>

\* Orders in which pairs(intents) may enumerate the keys.  The keys are
\* strings held in the hash part of the table; their order follows the string
\* hashes, which Lua seeds per runtime, and is fixed within one runtime.
PairsOrders ==
    {SourceOrder,
     <<"completion", "course_info", "greeting", "help", "progress", "recommendation">>,
     <<"help", "greeting", "recommendation", "completion", "progress", "course_info">>,
     <<"course_info", "completion", "help", "recommendation", "greeting", "progress">>}

\* some pattern of the intent occurs in the lower-cased message
Triggered(intent, message_lower) ==
    \E k \in 1..Len(IntentPatterns[intent]) :
        StringFind(message_lower, IntentPatterns[intent][k])

RECURSIVE IntentLoop(_, _, _)
\* the loop "for intent, patterns in pairs(intents)" from position i of the
\* enumeration on, and the final return "general"
IntentLoop(message_lower, order, i) ==
    IF i > Len(order) THEN "general"
    ELSE IF Triggered(order[i], message_lower) THEN order[i]
         ELSE IntentLoop(message_lower, order, i + 1)

analyze_user_intent_firstKey(message, order) ==
    IF \E k \in IntentNames : Triggered(k, StringLower(message))
    THEN order[1] ELSE "general"

analyze_user_intent(message, order) == IntentLoop(StringLower(message), order, 1)

\* "Hello, how should I study Python?"
MsgStudyPython ==
    <<"H", "e", "l", "l", "o", ",", " ", "h", "o", "w", " ", "s", "h", "o", "u", "l">> \o
    <<"d", " ", "I", " ", "s", "t", "u", "d", "y", " ", "P", "y", "t", "h", "o", "n", "?">>
\* "help me find a course"
MsgFindCourse ==
    <<"h", "e", "l", "p", " ", "m", "e", " ", "f", "i">> \o
    <<"n", "d", " ", "a", " ", "c", "o", "u", "r", "s", "e">>
\* "What is my progress"
MsgMyProgress ==
    <<"W", "h", "a", "t", " ", "i", "s", " ", "m">> \o
    <<"y", " ", "p", "r", "o", "g", "r", "e", "s", "s">>
\* "Thanks a lot"
MsgThanks ==
    <<"T", "h", "a", "n", "k", "s", " ", "a", " ", "l", "o", "t">>
\* "I am DONE with this"
MsgDone ==
    <<"I", " ", "a", "m", " ", "D", "O", "N", "E">> \o
    <<" ", "w", "i", "t", "h", " ", "t", "h", "i", "s">>

Messages == {MsgStudyPython, MsgFindCourse, MsgMyProgress, MsgThanks, MsgDone}

\* the server process has imported the chatbot module: one ChatbotService,
\* one Lua runtime
InitIntent ==
    /\ backend = "postgresql"
    /\ chatbot \in [intent_order : PairsOrders]
    /\ gemini = NoGemini
    /\ exchanges = <<>>
    /\ committed = <<>>
    /\ classified = [m \in Messages |-> {}]
    /\ now = 0
    /\ usuarios = (1 :> "beginner")
    /\ trilhas = (1 :> "beginner")
    /\ conteudos = (1 :> 1 @@ 2 :> 1)
    /\ user_trilha = {<<1, 1>>}
    /\ desempenhos = {}
    /\ nextId = 1
    /\ session = [s \in Sessions |-> IdleSession]
    /\ queues = EmptyQueues
    /\ supplied = <<>>
    /\ result = NoResult

\* self.lua.globals().analyze_user_intent(message)
AnalyzeIntent ==
    /\ \E m \in Messages :
         LET intent == analyze_user_intent(m, chatbot.intent_order)
         IN  /\ result' = [op |-> "analyze_user_intent", message |-> m, value |-> intent]
             /\ classified' = [classified EXCEPT ![m] = @ \cup {intent}]
    /\ UNCHANGED <<committed, gemini, exchanges, chatbot, backend, now, usuarios, trilhas, conteudos, user_trilha,
                   desempenhos, nextId, session, queues, supplied>>

\* the server process is started again: the module-level ChatbotService() is
\* built anew, with a new LuaRuntime
RestartServer ==
    /\ chatbot' \in [intent_order : PairsOrders]
    /\ UNCHANGED <<committed, gemini, exchanges, classified, backend, now, usuarios, trilhas, conteudos, user_trilha,
                   desempenhos, nextId, session, queues, supplied, result>>

NextIntent == AnalyzeIntent \/ RestartServer

SpecIntent == InitIntent /\ [][NextIntent]_vars

\* a classification has been returned
IntentReturned == result.op = "analyze_user_intent"

\* C16: an intent other than general is returned only if one of its trigger
\* substrings occurs in the lower-cased message, and general is returned if
\* and only if no trigger of any intent occurs in it.
C16_IntentOnlyIfTriggered ==
    IntentReturned =>
        LET lower == StringLower(result.message)
        IN  /\ result.value \in IntentNames \cup {"general"}
            /\ result.value # "general" => Triggered(result.value, lower)
            /\ result.value = "general" <=> \A k \in IntentNames : ~Triggered(k, lower)

\* a message with an upper-case trigger of one intent has got an intent that
\* is not the first one enumerated
C16_Witness ==
    /\ IntentReturned
    /\ result.message = MsgDone
    /\ result.value = "completion"
    /\ chatbot.intent_order[1] # "completion"

\* C17: two invocations on the same message return the same intent, also
\* when triggers of several intents occur in it, and "Hello, how should I
\* study Python?" gets an element of {greeting, help, recommendation}
\* (original statement).
C17_ClassificationDeterministic ==
    /\ \A m \in Messages : Cardinality(classified[m]) <= 1
    /\ classified[MsgStudyPython] \subseteq {"greeting", "help", "recommendation"}

-----------------------------------------------------------------------------
(* Content delivery: ContentDelivery.update_content_progress, reached by    *)
(* POST /progress/update and by the task batch_process_user_progress        *)

\* argument values inside and outside the admitted ranges
ProgressoArgs == {-10, 100, 150}
NotaArgs == {NULL, 101}
\* (user_id, conteudo_id) of the calls: stored ids, an unknown user, an
\* unknown content item
DeliveryTargets == {<<1, 1>>, <<2, 1>>, <<1, 3>>}
Callers == {"http", "task"}

\* ProgressUpdateRequest: progresso ge=0 le=100, nota optional ge=0 le=100,
\* tempo_estudo optional ge=0
SchemaAccepts(p, n, t) ==
    /\ 0 <= p /\ p <= 100
    /\ n = NULL \/ (0 <= n /\ n <= 100)
    /\ t = NULL \/ 0 <= t

ValidArgs_any(p, n) == TRUE

\* the two validation ifs at the head of update_content_progress
ValidArgs(p, n) ==
    /\ 0 <= p /\ p <= 100
    /\ ~(n # NULL /\ ~(0 <= n /\ n <= 100))

\* the foreign keys of a new desempenhos row point to stored rows
ForeignKeysHold(u, c) == u \in DOMAIN usuarios /\ c \in DOMAIN conteudos

\* the INSERT is refused: PostgreSQL enforces the foreign keys; the SQLite
\* engine is created without PRAGMA foreign_keys and enforces none
InsertRefused(u, c) == backend = "postgresql" /\ ~ForeignKeysHold(u, c)

\* the record update_progress stores and returns, its query having loaded ld:
\* the UPDATE is flushed onto the row as it is at commit
StoredRow(u, c, p, n, t, ld) ==
    IF ld # {}
    THEN LET old == CHOOSE d \in ld : TRUE
             cur == CHOOSE d \in desempenhos : d.id = old.id
         IN  FlushUpdate(cur, old, UpdatedObject(old, p, n, t))
    ELSE NewDesempenho(nextId, u, c, p, n, t)

\* the table after the commit of update_progress
StoreAfter(u, c, p, n, t, ld) ==
    IF ld # {}
    THEN {d \in desempenhos : d.id # (CHOOSE o \in ld : TRUE).id}
            \cup {StoredRow(u, c, p, n, t, ld)}
    ELSE desempenhos \cup {StoredRow(u, c, p, n, t, ld)}

\* NotificationService.send_notification -> publish("notifications", ...)
Notify(q, notification_type, recipient) ==
    [q EXCEPT !.notifications =
        Append(@, [type |-> notification_type, recipient |-> recipient])]

\* AnalyticsService.track_event on the queues q
TrackOn(q, event_type, user_id) ==
    [q EXCEPT !.analytics = Append(@, [event_type |-> event_type, user_id |-> user_id])]

\* completion_rate that get_user_trilha_progress computes on the table ds
CompletionRateOn(ds, u, trilha_id) ==
    LET cs   == {c \in DOMAIN conteudos : conteudos[c] = trilha_id}
        mine == {d \in ds : d.usuario_id = u /\ d.conteudo_id \in cs}
    IN  IF cs = {} THEN 0 ELSE CompletionRate(Completed(mine), Cardinality(cs))

\* _check_trilha_completion on the queues q and the table ds
check_trilha_completion(q, ds, u, c) ==
    IF c \notin DOMAIN conteudos THEN q
    ELSE IF CompletionRateOn(ds, u, conteudos[c]) >= 10000
         THEN TrackOn(Notify(q, "trilha_completed", u), "trilha_completed", u)
         ELSE q

\* _handle_content_completion: an unknown user makes user.email raise, and
\* the handler's except clause ends it there
handle_content_completion(q, ds, u, c) ==
    IF u \notin DOMAIN usuarios THEN q
    ELSE check_trilha_completion(Notify(q, "content_completed", u), ds, u, c)

\* the queues when update_content_progress returns after a stored update
QueuesAfter(ds, u, c, p) ==
    TrackOn(IF p >= 100 THEN handle_content_completion(queues, ds, u, c) ELSE queues,
            "progress_updated", u)

\* update_content_progress(u, c, p, n, t) run to completion, its query
\* having loaded ld: the dict it returns and the tables and queues it leaves
update_content_progress(u, c, p, n, t, ld) ==
    IF ~ValidArgs(p, n)
    THEN [ret |-> [success |-> FALSE,
                   error |-> IF ~(0 <= p /\ p <= 100)
                             THEN "Progress must be between 0 and 100"
                             ELSE "Grade must be between 0 and 100"],
          desempenhos |-> desempenhos, nextId |-> nextId, queues |-> queues]
    ELSE IF ld = {} /\ InsertRefused(u, c)
    THEN [ret |-> [success |-> FALSE, error |-> "Failed to update progress"],
          desempenhos |-> desempenhos, nextId |-> nextId, queues |-> queues]
    ELSE [ret |-> [success |-> TRUE, progress |-> StoredRow(u, c, p, n, t, ld)],
          desempenhos |-> StoreAfter(u, c, p, n, t, ld),
          nextId |-> IF ld = {} THEN nextId + 1 ELSE nextId,
          queues |-> QueuesAfter(StoreAfter(u, c, p, n, t, ld), u, c, p)]

\* the call takes place and leaves its effects
Deliver(out) ==
    /\ Len(out.queues.notifications) <= MaxQueue
    /\ Len(out.queues.analytics) <= MaxQueue
    /\ \A d \in out.desempenhos : -MaxTempo <= d.tempo_estudo /\ d.tempo_estudo <= MaxTempo
    /\ desempenhos' = out.desempenhos
    /\ nextId' = out.nextId
    /\ queues' = out.queues

\* what a finished call leaves in result
DeliveryResult(via, called, u, c, p, n, status, ret) ==
    [op |-> "update_content_progress", via |-> via, called |-> called,
     user_id |-> u, conteudo_id |-> c, progresso |-> p, nota |-> n,
     status |-> status, value |-> ret]

\* POST /progress/update: the body is validated against ProgressUpdateRequest
\* (422 on failure) before the route function runs; the route function
\* answers a success = false of the service with 400; tempos are the
\* tempo_estudo values the callers send
PostProgressUpdate(tempos) ==
    /\ \E k \in DeliveryTargets, p \in ProgressoArgs, n \in NotaArgs, t \in tempos :
         IF ~SchemaAccepts(p, n, t)
         THEN /\ result' = DeliveryResult("http", FALSE, k[1], k[2], p, n, 422, <<>>)
              /\ UNCHANGED <<desempenhos, nextId, queues>>
         ELSE \E ld \in QueryFirst(k[1], k[2]) :
                LET out == update_content_progress(k[1], k[2], p, n, t, ld)
                IN  /\ Deliver(out)
                    /\ result' = DeliveryResult("http", TRUE, k[1], k[2], p, n,
                                     IF out.ret.success THEN 200 ELSE 400, out.ret)
    /\ UNCHANGED <<committed, gemini, exchanges, chatbot, classified, backend, now, usuarios, trilhas, conteudos,
                   user_trilha, session, supplied>>

\* one item of the list batch_process_user_progress works through
BatchProcessItem(tempos) ==
    /\ \E k \in DeliveryTargets, p \in ProgressoArgs, n \in NotaArgs, t \in tempos :
       \E ld \in QueryFirst(k[1], k[2]) :
         LET out == update_content_progress(k[1], k[2], p, n, t, ld)
         IN  /\ Deliver(out)
             /\ result' = DeliveryResult("task", TRUE, k[1], k[2], p, n, NULL, out.ret)
    /\ UNCHANGED <<committed, gemini, exchanges, chatbot, classified, backend, now, usuarios, trilhas, conteudos,
                   user_trilha, session, supplied>>

\* NotificationService.notification_types: the types that have a handler
NotificationTypes ==
    {"learning_reminder", "progress_update", "recommendation_ready", "course_completion"}

\* the notifications of the sequence ns that process_notifications passes to
\* the handler of their type
Handled(ns) == SelectSeq(ns, LAMBDA m : m.type \in NotificationTypes)

\* the notifications of ns that meet the else branch: "Unknown notification
\* type" is printed and the message, already consumed, is gone
Discarded(ns) == SelectSeq(ns, LAMBDA m : m.type \notin NotificationTypes)

\* NotificationService.process_notifications: consume up to 50 messages and
\* hand each to the handler of its type
ProcessNotifications ==
    /\ queues.notifications # <<>>
    /\ queues' = [queues EXCEPT !.notifications = <<>>]
    /\ result' = [op |-> "process_notifications",
                  handled |-> Handled(queues.notifications),
                  discarded |-> Discarded(queues.notifications)]
    /\ UNCHANGED <<committed, gemini, exchanges, chatbot, classified, backend, now, usuarios, trilhas, conteudos,
                   user_trilha, desempenhos, nextId, session, supplied>>

\* one learner and the single content item of path 1, on either backend
InitDelivery ==
    /\ backend \in Backends
    /\ chatbot = NoChatbot
    /\ gemini = NoGemini
    /\ exchanges = <<>>
    /\ committed = <<>>
    /\ classified = <<>>
    /\ now = 0
    /\ usuarios = (1 :> "beginner")
    /\ trilhas = (1 :> "beginner")
    /\ conteudos = (1 :> 1)
    /\ user_trilha = {<<1, 1>>}
    /\ desempenhos = {}
    /\ nextId = 1
    /\ session = [s \in Sessions |-> IdleSession]
    /\ queues = EmptyQueues
    /\ supplied = <<>>
    /\ result = NoResult

NextDelivery ==
    \/ PostProgressUpdate({NULL})
    \/ BatchProcessItem({NULL})
    \/ ProcessNotifications
    \/ ProcessAnalytics

SpecDelivery == InitDelivery /\ [][NextDelivery]_vars

\* the arguments of the finished call r lie outside the admitted ranges
OutOfRange(r) ==
    \/ r.progresso < 0 \/ r.progresso > 100
    \/ r.nota # NULL /\ (r.nota < 0 \/ r.nota > 100)

\* the step is an update_content_progress request that has just finished
DeliveryStep == result' # result /\ result'.op = "update_content_progress"

\* C18: a call with a progress or a supplied grade outside [0, 100] returns
\* success = false, surfaced as HTTP 400 on the endpoint, changes no
\* performance record and publishes nothing (original statement).
C18_OutOfRangeRejectedWith400 ==
    [][(DeliveryStep /\ OutOfRange(result')) =>
          /\ result'.called
          /\ ~result'.value.success
          /\ result'.via = "http" => result'.status = 400
          /\ desempenhos' = desempenhos
          /\ queues' = queues]_vars

\* C18 amended: a progress or a supplied grade outside [0, 100] changes no
\* performance record and publishes nothing; update_content_progress called
\* with it (by the batch task) returns success = false with the range
\* message, and a POST /progress/update carrying it is answered 422 by the
\* request schema without update_content_progress being called.
C18_OutOfRangeRejected ==
    [][(DeliveryStep /\ OutOfRange(result')) =>
          /\ desempenhos' = desempenhos
          /\ nextId' = nextId
          /\ queues' = queues
          /\ IF result'.via = "http"
             THEN ~result'.called /\ result'.status = 422
             ELSE /\ result'.called
                  /\ ~result'.value.success
                  /\ result'.value.error \in {"Progress must be between 0 and 100",
                                              "Grade must be between 0 and 100"}]_vars

\* the batch task has had an out-of-range item refused while the learner's
\* record and a queued event were there to be kept
C18_Witness ==
    /\ result.op = "update_content_progress"
    /\ result.via = "task"
    /\ OutOfRange(result)
    /\ ~result.value.success
    /\ RowsOf(result.user_id, result.conteudo_id) # {}
    /\ queues.analytics # <<>>

\* C19: a request for a user id or a content id that is not stored is
\* answered with a not-found error (404), and no performance record is
\* created for such an id (original statement).
C19_UnknownIdsNotFound ==
    /\ (/\ result.op = "update_content_progress"
        /\ result.via = "http"
        /\ ~OutOfRange(result)
        /\ ~(result.user_id \in DOMAIN usuarios /\ result.conteudo_id \in DOMAIN conteudos))
          => result.status = 404
    /\ \A d \in desempenhos :
          d.usuario_id \in DOMAIN usuarios /\ d.conteudo_id \in DOMAIN conteudos

-----------------------------------------------------------------------------
(* Deletion of learning paths and of users *)

\* cap on the primary keys handed out
MaxId == 4

\* (user_id, conteudo_id) of the progress updates
DeleteTargets == {<<1, 1>>, <<1, 3>>, <<2, 1>>}

\* the flush of a delete can raise: rows of questoes, sessoes_quiz or
\* respostas_usuario, or a trilhas.criador_id, still point to a deleted row
FlushOutcomes == {"ok", "raises"}

DesempenhosAfterDelete_all(trilha_id) == {}

\* for conteudo in trilha.conteudos:
\*     db.query(Desempenho).filter(Desempenho.conteudo_id == conteudo.id).delete()
DesempenhosAfterDelete(trilha_id) ==
    {d \in desempenhos :
        ~(d.conteudo_id \in DOMAIN conteudos /\ conteudos[d.conteudo_id] = trilha_id)}

\* DELETE /trilhas/{trilha_id}: TrilhaRepository.delete and the response
DeleteTrilha ==
    /\ \E t \in TrilhaIds, flush \in FlushOutcomes :
         IF t \in DOMAIN trilhas /\ flush = "ok"
         THEN /\ user_trilha' = {e \in user_trilha : e[2] # t}
              /\ desempenhos' = DesempenhosAfterDelete(t)
              /\ conteudos' = [c \in {x \in DOMAIN conteudos : conteudos[x] # t} |-> conteudos[c]]
              /\ trilhas' = [x \in DOMAIN trilhas \ {t} |-> trilhas[x]]
              /\ result' = [op |-> "delete_trilha", trilha_id |-> t,
                            deleted |-> TRUE, status |-> 200]
         ELSE /\ result' = [op |-> "delete_trilha", trilha_id |-> t,
                            deleted |-> FALSE, status |-> 404]
              /\ UNCHANGED <<user_trilha, desempenhos, conteudos, trilhas>>
    /\ UNCHANGED <<committed, gemini, exchanges, chatbot, classified, backend, now, usuarios, nextId, session,
                   queues, supplied>>

\* UsuarioManager.delete_user over BaseRepository.delete: db.delete(user)
\* sets usuario_id of the user's performance records to NULL, which the NOT
\* NULL column refuses, so a user with records is not deleted
DeleteUser ==
    /\ \E u \in UserIds, flush \in FlushOutcomes :
         IF u \notin DOMAIN usuarios
         THEN /\ result' = [op |-> "delete_user", user_id |-> u,
                            value |-> [success |-> FALSE, error |-> "User not found"]]
              /\ UNCHANGED <<usuarios, user_trilha, queues>>
         ELSE IF RowsOfUser(u) # {} \/ flush = "raises"
         THEN /\ result' = [op |-> "delete_user", user_id |-> u,
                            value |-> [success |-> FALSE, error |-> "Failed to delete user"]]
              /\ UNCHANGED <<usuarios, user_trilha, queues>>
         ELSE /\ Len(queues.analytics) < MaxQueue
              /\ usuarios' = [x \in DOMAIN usuarios \ {u} |-> usuarios[x]]
              /\ user_trilha' = {e \in user_trilha : e[1] # u}
              /\ queues' = Track("user_deleted", u)
              /\ result' = [op |-> "delete_user", user_id |-> u,
                            value |-> [success |-> TRUE,
                                       message |-> "User deleted successfully"]]
    /\ UNCHANGED <<committed, gemini, exchanges, chatbot, classified, backend, now, trilhas, conteudos,
                   desempenhos, nextId, session, supplied>>

\* a progress update for a stored user and a stored content item
CallDelete ==
    \E k \in DeleteTargets :
        /\ k[1] \in DOMAIN usuarios
        /\ k[2] \in DOMAIN conteudos
        /\ nextId <= MaxId
        /\ update_progress(k[1], k[2], 100, NULL, NULL)

\* two learners; path 1 with content items 1 and 2, path 2 with item 3
InitDelete ==
    /\ backend \in Backends
    /\ chatbot = NoChatbot
    /\ gemini = NoGemini
    /\ exchanges = <<>>
    /\ committed = <<>>
    /\ classified = <<>>
    /\ now = 0
    /\ usuarios = (1 :> "beginner" @@ 2 :> "beginner")
    /\ trilhas = (1 :> "beginner" @@ 2 :> "intermediate")
    /\ conteudos = (1 :> 1 @@ 2 :> 1 @@ 3 :> 2)
    /\ user_trilha = {<<1, 1>>, <<1, 2>>, <<2, 1>>}
    /\ desempenhos = {}
    /\ nextId = 1
    /\ session = [s \in Sessions |-> IdleSession]
    /\ queues = EmptyQueues
    /\ supplied = [k \in DeleteTargets |-> {}]
    /\ result = NoResult

NextDelete == CallDelete \/ DeleteTrilha \/ DeleteUser

SpecDelete == InitDelete /\ [][NextDelete]_vars

\* the step deletes the path t
PathDeleted(t) == t \in DOMAIN trilhas /\ t \notin DOMAIN trilhas'

\* C20: a step that removes a performance record is a successful path
\* deletion, and a successful deletion of path t removes exactly the records
\* of t's content items, those content items and t's enrollments, leaving
\* the records, content items and enrollments of every other path as they were.
C20_RemovedOnlyByPathDeletion ==
    [][/\ (\E d \in desempenhos : \A e \in desempenhos' : e.id # d.id) =>
             /\ \E t \in TrilhaIds : PathDeleted(t)
             /\ result'.op = "delete_trilha" /\ result'.deleted
       /\ \A t \in TrilhaIds :
             PathDeleted(t) =>
                /\ desempenhos' = {d \in desempenhos : conteudos[d.conteudo_id] # t}
                /\ DOMAIN conteudos' = {c \in DOMAIN conteudos : conteudos[c] # t}
                /\ \A c \in DOMAIN conteudos' : conteudos'[c] = conteudos[c]
                /\ user_trilha' = {e \in user_trilha : e[2] # t}
                /\ DOMAIN trilhas' = DOMAIN trilhas \ {t}]_vars

\* a path has been deleted with its records while a record of the other
\* path is still stored
C20_Witness ==
    /\ result.op = "delete_trilha"
    /\ result.deleted
    /\ desempenhos # {}
    /\ Cardinality(desempenhos) < nextId - 1
    /\ \A d \in desempenhos : d.conteudo_id \in DOMAIN conteudos

-----------------------------------------------------------------------------
(* generate_personalized_recommendations step by step: the coroutine is     *)
(* suspended at "await asyncio.to_thread(self.model.generate_content, ...)" *)
(* until the worker thread running the model call finishes                  *)

\* up to the await of the model call: _collect_user_data, then the prompt is
\* built and the call handed to a worker thread
StartRecommendations ==
    /\ session[1].pc = "idle"
    /\ Len(queues.analytics) < MaxQueue
    /\ \E u \in RecCallers :
         IF u \notin DOMAIN usuarios
         THEN /\ result' = [op |-> "generate_personalized_recommendations", user_id |-> u,
                            outcome |-> "none",
                            value |-> [success |-> FALSE, error |-> "User not found"]]
              /\ gemini' = [gemini EXCEPT !.calls = <<>>]
              /\ UNCHANGED session
         ELSE /\ session' = [session EXCEPT ![1] = [pc |-> "awaiting_ai", user_id |-> u]]
              /\ gemini' = [calls |-> <<"generate_learning_recommendations">>,
                            thread |-> "running"]
              /\ UNCHANGED result
    /\ UNCHANGED <<committed, exchanges, chatbot, classified, backend, now, usuarios, trilhas, conteudos,
                   user_trilha, desempenhos, nextId, queues, supplied>>

\* self.model.generate_content(prompt) comes back in its thread, with an
\* answer or with an exception; no caller sets a deadline for it
ModelReturns ==
    /\ gemini.thread = "running"
    /\ \E outcome \in AiOutcomes :
         gemini' = [gemini EXCEPT !.thread = outcome]
    /\ UNCHANGED <<committed, exchanges, chatbot, classified, backend, now, usuarios, trilhas, conteudos,
                   user_trilha, desempenhos, nextId, session, queues, supplied, result>>

\* the event loop resumes the coroutine: the rest of the request
ResumeRecommendations ==
    /\ session[1].pc = "awaiting_ai"
    /\ gemini.thread \in AiOutcomes
    /\ LET u == session[1].user_id
       IN  \E available \in get_recommended_trilhas_for_user(u, RecommendedLimit),
              popular \in get_popular_trilhas(PopularLimit) :
             LET value == generate_personalized_recommendations(u, gemini.thread,
                                                                available, popular)
             IN  /\ result' = [op |-> "generate_personalized_recommendations", user_id |-> u,
                               outcome |-> gemini.thread, value |-> value]
                 /\ queues' = IF value.success
                              THEN Track("ai_recommendations_generated", u)
                              ELSE queues
    /\ session' = [session EXCEPT ![1] = IdleSession]
    /\ gemini' = [gemini EXCEPT !.thread = "none"]
    /\ UNCHANGED <<committed, exchanges, chatbot, classified, backend, now, usuarios, trilhas, conteudos,
                   user_trilha, desempenhos, nextId, supplied>>

NextAiCall ==
    StartRecommendations \/ ModelReturns \/ ResumeRecommendations \/ ProcessAnalytics

\* the event loop resumes a coroutine whose awaited thread has finished and
\* the analytics consumer runs; nothing makes the model call finish
SpecAiCall ==
    /\ InitRec
    /\ [][NextAiCall]_vars
    /\ WF_vars(ResumeRecommendations)
    /\ WF_vars(ProcessAnalytics)

\* C21: a request waiting for the text-generation service eventually returns
\* a result, also when the service never responds (the call is bounded by a
\* timeout).
C21_EventuallyReturns ==
    (session[1].pc = "awaiting_ai") ~>
        (session[1].pc = "idle" /\ result.op = "generate_personalized_recommendations")

-----------------------------------------------------------------------------
(* Chatbot: ChatbotService.process_message and the conversation history,    *)
(* reached by POST /chat/{user_id} and POST /quick-help/{user_id}.  A reply *)
(* is kept as its template and the detail its handler produced; the         *)
(* keywords and the confidence of the metadata are left out.                *)

\* bound of the clock in the long conversations and in the short ones
MaxClock == 11
MaxChatClock == 2

\* "Keep only last 10 exchanges"
HistoryCap == 10
\* content_recs[:3], the recommendations a reply shows
TopShown == 3

ChatbotFallbackText ==
    "I'm sorry, I'm having trouble understanding right now. Could you please rephrase your question?"

\* user ids of the chat requests: learner 1 and an unknown id
ChatCallers == {1, 3}

\* random.choice(greetings)
GreetingVariants == {1, 2, 3, 4}

\* "Course content"
MsgCourseContent ==
    <<"C", "o", "u", "r", "s", "e", " ", "c", "o", "n", "t", "e", "n", "t">>
\* "All done"
MsgAllDone ==
    <<"A", "l", "l", " ", "d", "o", "n", "e">>
\* "python"
TopicPython == <<"p", "y", "t", "h", "o", "n">>
\* "this course"
TopicThisCourse == <<"t", "h", "i", "s", " ", "c", "o", "u", "r", "s", "e">>

HelpTopics == {TopicPython, TopicThisCourse}

\* f"Can you help me understand {topic}?"
HelpMessage(topic) ==
    <<"C", "a", "n", " ", "y", "o", "u", " ", "h", "e", "l", "p", " ", "m", "e", " ">> \o
    <<"u", "n", "d", "e", "r", "s", "t", "a", "n", "d", " ">> \o topic \o <<"?">>

\* GeminiClient.generate_chatbot_response: an answer, or the fixed message
\* when the model call raises
generate_chatbot_response(outcome) ==
    IF outcome = "raises" THEN ChatbotFallbackText ELSE AiText

\* the last n elements of a list: q[-n:]
LastN(q, n) == IF Len(q) <= n THEN q ELSE SubSeq(q, Len(q) - n + 1, Len(q))

\* the first n elements of a list: q[:n]
FirstN(q, n) == IF Len(q) <= n THEN q ELSE SubSeq(q, 1, n)

ClientCalls_helpStatic(intent) ==
    IF intent = "recommendation" THEN <<"generate_learning_recommendations">>
    ELSE IF intent \in {"progress", "greeting", "course_info", "completion", "help"} THEN <<>>
    ELSE <<"generate_chatbot_response">>

\* the calls the handler of the intent makes on the Gemini client: the
\* recommendation engine asks for recommendations, _handle_help_request and
\* _handle_general_request for a chatbot response, the other handlers nothing
ClientCalls(intent) ==
    IF intent = "recommendation" THEN <<"generate_learning_recommendations">>
    ELSE IF intent \in {"progress", "greeting", "course_info", "completion"} THEN <<>>
    ELSE <<"generate_chatbot_response">>

\* _generate_intent_response on the queues q: the detail of the reply, the
\* calls made on the Gemini client and the queues afterwards
generate_intent_response(q, user_id, intent, outcome, available, popular, variant) ==
    IF intent = "recommendation"
    THEN LET recs == generate_personalized_recommendations(user_id, outcome, available, popular)
         IN  [detail |-> IF recs.success
                         THEN LET content == recs.structured_recommendations.content_recommendations
                              IN  [kind |-> "recommendations",
                                   top |-> [i \in 1..Len(FirstN(content, TopShown)) |->
                                               content[i].id],
                                   ai_insights |-> recs.ai_recommendations]
                         ELSE [kind |-> "recommendation_trouble"],
              calls |-> ClientCalls(intent),
              queues |-> IF recs.success
                         THEN TrackOn(q, "ai_recommendations_generated", user_id)
                         ELSE q]
    ELSE IF intent = "progress"
    THEN LET analytics == get_learning_analytics(user_id, 30)
         IN  [detail |-> [kind |-> "progress",
                          completion_rate |-> GetOr0(analytics, "completion_rate"),
                          total_activities |-> GetOr0(analytics, "total_activities"),
                          learning_streak |-> GetOr0(analytics, "learning_streak")],
              calls |-> ClientCalls(intent), queues |-> q]
    ELSE IF intent = "help"
    THEN [detail |-> [kind |-> "explanation", text |-> generate_chatbot_response(outcome)],
          calls |-> ClientCalls(intent), queues |-> q]
    ELSE IF intent = "greeting"
    THEN [detail |-> [kind |-> "greeting", greeting |-> variant],
          calls |-> ClientCalls(intent), queues |-> q]
    ELSE IF intent = "course_info"
    THEN [detail |-> [kind |-> "course_information"], calls |-> ClientCalls(intent), queues |-> q]
    ELSE IF intent = "completion"
    THEN [detail |-> [kind |-> "congratulations"], calls |-> ClientCalls(intent), queues |-> q]
    ELSE [detail |-> [kind |-> "general", text |-> generate_chatbot_response(outcome)],
          calls |-> ClientCalls(intent), queues |-> q]

store_conversation_first(history, user_id, entry) ==
    LET old == IF user_id \in DOMAIN history THEN history[user_id] ELSE <<>>
    IN  [u \in DOMAIN history \cup {user_id} |->
            IF u = user_id THEN FirstN(Append(old, entry), HistoryCap) ELSE history[u]]

\* _store_conversation: append, then keep the last 10
store_conversation(history, user_id, entry) ==
    LET old == IF user_id \in DOMAIN history THEN history[user_id] ELSE <<>>
    IN  [u \in DOMAIN history \cup {user_id} |->
            IF u = user_id THEN LastN(Append(old, entry), HistoryCap) ELSE history[u]]

\* process_message: the value returned, the history, the calls made on the
\* Gemini client and the queues afterwards
process_message(user_id, message, outcome, available, popular, variant) ==
    IF user_id \notin DOMAIN usuarios
    THEN [ret |-> [success |-> FALSE, error |-> "User not found"],
          history |-> chatbot.conversation_history,
          calls |-> <<>>,
          queues |-> queues]
    ELSE LET intent   == analyze_user_intent(message, chatbot.intent_order)
             handled  == generate_intent_response(queues, user_id, intent, outcome,
                                                  available, popular, variant)
             response == [template |-> intent, detail |-> handled.detail]
             entry    == [timestamp |-> now, user_message |-> message,
                          bot_response |-> response, intent |-> intent]
         IN  [ret |-> [success |-> TRUE, response |-> response,
                       metadata |-> [intent |-> intent]],
              entry |-> entry,
              history |-> store_conversation(chatbot.conversation_history, user_id, entry),
              calls |-> handled.calls,
              queues |-> TrackOn(handled.queues, "chatbot_message_processed", user_id)]

\* the effect of one process_message call made for the endpoint via; the
\* clock moves on while the message is processed.  The outcome of the model
\* call, the greeting drawn and the lists the catalog queries return are
\* drawn for the handlers that use them.
Processed(via, user_id, message, max_clock) ==
    /\ now < max_clock
    /\ LET intent == IF user_id \in DOMAIN usuarios
                     THEN analyze_user_intent(message, chatbot.intent_order)
                     ELSE "none"
           asks   == intent \in {"recommendation", "help", "general"}
           greets == intent = "greeting"
           lists  == intent = "recommendation"
       IN  \E outcome \in (IF asks THEN AiOutcomes ELSE {"ok"}),
              variant \in (IF greets THEN GreetingVariants ELSE {1}) :
           \E available \in (IF lists
                              THEN get_recommended_trilhas_for_user(user_id, RecommendedLimit)
                              ELSE {<<>>}),
              popular \in (IF lists THEN get_popular_trilhas(PopularLimit) ELSE {<<>>}) :
             LET out == process_message(user_id, message, outcome, available, popular, variant)
             IN  /\ Len(out.queues.analytics) <= MaxQueue
                 /\ chatbot' = [chatbot EXCEPT !.conversation_history = out.history]
                 /\ gemini' = [gemini EXCEPT !.calls = out.calls]
                 /\ queues' = out.queues
                 /\ exchanges' = IF out.ret.success
                                 THEN [exchanges EXCEPT ![user_id] = Append(@, out.entry)]
                                 ELSE exchanges
                 /\ result' = [op |-> "process_message", via |-> via, user_id |-> user_id,
                               message |-> message, value |-> out.ret]
    /\ now' = now + 1
    /\ UNCHANGED <<committed, classified, backend, usuarios, trilhas, conteudos, user_trilha,
                   desempenhos, nextId, session, supplied>>

\* POST /chat/{user_id}
ChatWithBot(callers, msgs, max_clock) ==
    \E u \in callers, m \in msgs : Processed("chat", u, m, max_clock)

\* POST /quick-help/{user_id}?topic=...
GetQuickHelp(max_clock) ==
    \E u \in ChatCallers, topic \in HelpTopics :
        Processed("quick_help", u, HelpMessage(topic), max_clock)

\* DELETE /history/{user_id}
ClearConversationHistory ==
    /\ \E u \in ChatCallers :
         /\ chatbot' = [chatbot EXCEPT !.conversation_history =
                           [v \in DOMAIN @ \ {u} |-> @[v]]]
         /\ exchanges' = [exchanges EXCEPT ![u] = <<>>]
         /\ result' = [op |-> "clear_conversation_history", user_id |-> u,
                       value |-> [success |-> TRUE]]
    /\ UNCHANGED <<committed, gemini, classified, backend, now, usuarios, trilhas, conteudos,
                   user_trilha, desempenhos, nextId, session, queues, supplied>>

\* the server process has started: one ChatbotService with an empty history;
\* learner 1 is enrolled in the first of two paths, learner 2 in both
InitChat ==
    /\ backend = "postgresql"
    /\ chatbot \in [intent_order : PairsOrders, conversation_history : {<<>>}]
    /\ classified = <<>>
    /\ gemini = NoGemini
    /\ exchanges = [u \in ChatCallers |-> <<>>]
    /\ committed = <<>>
    /\ now = 0
    /\ usuarios = (1 :> "beginner" @@ 2 :> "beginner")
    /\ trilhas = (1 :> "beginner" @@ 2 :> "intermediate")
    /\ conteudos = (1 :> 1 @@ 2 :> 1)
    /\ user_trilha = {<<1, 1>>, <<2, 1>>, <<2, 2>>}
    /\ desempenhos = {}
    /\ nextId = 1
    /\ session = [s \in Sessions |-> IdleSession]
    /\ queues = EmptyQueues
    /\ supplied = <<>>
    /\ result = NoResult

\* long conversations of messages answered by static text
NextHistory ==
    \/ ChatWithBot({1}, {MsgCourseContent, MsgAllDone}, MaxClock)
    \/ ClearConversationHistory
    \/ ProcessAnalytics

\* a server whose Lua runtime enumerates the intents in the order of the source
InitHistory == InitChat /\ chatbot.intent_order = SourceOrder

SpecHistory == InitHistory /\ [][NextHistory]_vars

\* short conversations of messages of every intent
NextChat ==
    \/ ChatWithBot(ChatCallers, Messages, MaxChatClock)
    \/ GetQuickHelp(MaxChatClock)
    \/ ClearConversationHistory
    \/ ProcessAnalytics

SpecChat == InitChat /\ [][NextChat]_vars

\* the history stored for user u, [] when the user has no key
HistoryOf(u) ==
    IF u \in DOMAIN chatbot.conversation_history
    THEN chatbot.conversation_history[u] ELSE <<>>

\* C22: the stored history of each user holds at most 10 exchanges, and they
\* are the user's most recent successfully processed exchanges since the
\* last clear, in chronological order.
C22_HistoryIsLastTenExchanges ==
    \A u \in ChatCallers :
        /\ Len(HistoryOf(u)) <= HistoryCap
        /\ HistoryOf(u) = LastN(exchanges[u], HistoryCap)
        /\ \A i \in 1..(Len(HistoryOf(u)) - 1) :
             HistoryOf(u)[i].timestamp < HistoryOf(u)[i + 1].timestamp

\* more than ten exchanges have been processed since the last clear, and the
\* oldest one is no longer stored
C22_Witness ==
    /\ Len(exchanges[1]) > HistoryCap
    /\ Len(HistoryOf(1)) = HistoryCap
    /\ HistoryOf(1)[1] # exchanges[1][1]
    /\ result.op = "process_message"

\* a quick-help request has just been answered
QuickHelpStep == now' # now /\ result'.op = "process_message" /\ result'.via = "quick_help"

\* C23: a quick-help request leaves the user's stored conversation history
\* unchanged: the interaction is answered without being stored.
C23_QuickHelpNotStored ==
    [][QuickHelpStep => chatbot'.conversation_history = chatbot.conversation_history]_vars

\* a message has just been processed
MessageProcessed == result.op = "process_message" /\ result.value.success

\* C25: the text-generation call is made exactly once when the classified
\* intent is general or help, and not at all when it is progress, greeting,
\* course_info or completion.
C25_TextGenerationByIntent ==
    MessageProcessed =>
        LET intent == result.value.metadata.intent
        IN  /\ intent \in {"general", "help"} =>
                 gemini.calls = <<"generate_chatbot_response">>
            /\ intent \in {"progress", "greeting", "course_info", "completion"} =>
                 /\ gemini.calls = <<>>
                 /\ "text" \notin DOMAIN result.value.response.detail
            /\ intent = "progress" => result.value.response.detail.kind = "progress"

\* a help message has been answered with one call, after a message of a
\* static intent answered with none
C25_Witness ==
    /\ MessageProcessed
    /\ result.value.metadata.intent = "help"
    /\ Len(gemini.calls) = 1
    /\ Len(HistoryOf(1)) = 2
    /\ HistoryOf(1)[1].intent \in {"progress", "greeting", "course_info", "completion"}

-----------------------------------------------------------------------------
(* Two update_progress calls racing on one existing record: each worker     *)
(* makes one call with a grade and a study-time increment                   *)

\* the study time of the record before the two calls
RaceTempo0 == 10
\* the grade of the record before the two calls
RaceNotas0 == {NULL, 50, 90}
\* the grades and the study-time increments the calls supply
RaceNotas == {50, 90}
RaceTempos == {0, 5, 10}

\* one learner, one content item and its record
InitRace ==
    /\ backend = "postgresql"
    /\ chatbot = NoChatbot
    /\ gemini = NoGemini
    /\ exchanges = <<>>
    /\ committed = <<>>
    /\ classified = <<>>
    /\ now = 0
    /\ usuarios = (1 :> "beginner")
    /\ trilhas = (1 :> "beginner")
    /\ conteudos = (1 :> 1)
    /\ user_trilha = {<<1, 1>>}
    /\ \E g0 \in RaceNotas0 :
         desempenhos = {[id |-> 1, usuario_id |-> 1, conteudo_id |-> 1, progresso |-> 50,
                         nota |-> g0, tempo_estudo |-> RaceTempo0, updated_at |-> 0]}
    /\ nextId = 2
    /\ session = [s \in Sessions |-> IdleSession]
    /\ queues = EmptyQueues
    /\ supplied = [k \in UserIds \X ConteudoIds |-> {}]
    /\ result = NoResult

\* worker s has not made its call yet
NotCalled(s) ==
    /\ session[s].pc = "idle"
    /\ \A i \in 1..Len(committed) : committed[i].session # s

\* worker s issues its call and its session runs the query
CallRace ==
    \E s \in Sessions, p \in {50, 100}, n \in RaceNotas, t \in RaceTempos :
        /\ NotCalled(s)
        /\ UpQuery(s, 1, 1, p, n, t)

\* worker s commits and returns
ReturnRace ==
    \E s \in Sessions :
        LET a == session[s] IN
        /\ a.pc = "queried"
        /\ Commit(a.user_id, a.conteudo_id, a.progresso, a.nota, a.tempo_estudo, a.loaded)
        /\ session' = [session EXCEPT ![s] = IdleSession]
        /\ committed' = Append(committed,
                               [session |-> s, nota |-> a.nota, tempo_estudo |-> a.tempo_estudo,
                                read |-> (CHOOSE d \in a.loaded : TRUE).nota])
        /\ UNCHANGED <<gemini, exchanges, chatbot, classified, backend, now, usuarios,
                       trilhas, conteudos, user_trilha, queues>>

NextRace == CallRace \/ ReturnRace \/ Tick

SpecRace == InitRace /\ [][NextRace]_vars

\* both calls have committed
RaceOver == Len(committed) = 2

\* the record the two calls worked on
RaceRow == CHOOSE d \in desempenhos : d.id = 1

\* the final study time is t0+a, t0+b or t0+a+b
RaceTempoLostOrSummed ==
    RaceRow.tempo_estudo \in {RaceTempo0 + committed[1].tempo_estudo,
                              RaceTempo0 + committed[2].tempo_estudo,
                              RaceTempo0 + committed[1].tempo_estudo
                                         + committed[2].tempo_estudo}

\* C24 (original statement): after two concurrent calls with increments a, b
\* and grades g1, g2 the final study time is one of t0+a, t0+b, t0+a+b and the
\* final grade is the grade of the call that committed last.
C24_LastWriterWins ==
    RaceOver =>
        /\ RaceTempoLostOrSummed
        /\ RaceRow.nota = committed[2].nota

\* C24 (amended): the final study time is one of t0+a, t0+b, t0+a+b; the
\* final grade is the grade of the call that committed last when that grade
\* differs from the grade the call had read, and the grade of the call that
\* committed first otherwise.
C24_LastChangedGradeWins ==
    RaceOver =>
        /\ RaceTempoLostOrSummed
        /\ RaceRow.nota = IF committed[2].nota # committed[2].read
                          THEN committed[2].nota
                          ELSE committed[1].nota

\* the calls overlapped; the study time of the first one is lost and the
\* grade of the last one, equal to the grade it had read, is not written
C24_Witness ==
    /\ RaceOver
    /\ committed[1].tempo_estudo > 0
    /\ RaceRow.tempo_estudo = RaceTempo0 + committed[2].tempo_estudo
    /\ committed[2].nota = committed[2].read
    /\ RaceRow.nota = committed[1].nota
    /\ committed[1].nota # committed[2].nota

-----------------------------------------------------------------------------
(* The date of a record created today *)

\* C26: after a user's first progress update on a content item is made
\* today, the record counts as activity dated today: get_learning_analytics
\* includes it in recent_activities and the learning streak is at least 1.
\* (No day has passed since the first record was created: every record of
\* the user is of today.)
C26_FirstUpdateDatedToday ==
    (/\ result.op = "get_learning_analytics"
     /\ Today = 0
     /\ RowsOfUser(result.user_id) # {}) =>
        /\ result.value.recent_activities = Cardinality(RowsOfUser(result.user_id))
        /\ result.value.learning_streak >= 1

-----------------------------------------------------------------------------
(* Enrolled paths among the recommendations *)

\* paths the user is enrolled in that every popularity query lists among
\* its first two: fewer than two other paths have as many enrollments
SurelyPopular(u) ==
    {t \in Enrolled(u) :
        Cardinality({x \in DOMAIN trilhas \ {t} :
                        EnrollmentCount(x) >= EnrollmentCount(t)}) < TopPopular}

\* C27 (original statement): no entry of content_recommendations, whether
\* tier-matched or popularity-based, is a learning path the user is already
\* enrolled in.
C27_NoEnrolledPathRecommended ==
    RecsReturned =>
        \A i \in 1..Len(ContentRecs(result)) :
            ContentRecs(result)[i].id \notin Enrolled(result.user_id)

\* C27 (amended): no tier-matched entry is a path the user is enrolled in; a
\* popularity-based entry may be one, and a path the user is enrolled in that
\* is among the two with the most enrollments is recommended.
C27_EnrolledOnlyByPopularity ==
    RecsReturned =>
        LET u    == result.user_id
            recs == ContentRecs(result)
        IN  /\ \A i \in 1..Len(recs) :
                 recs[i].id \in Enrolled(u) => recs[i].source = "popularity_based"
            /\ \A t \in SurelyPopular(u) :
                 \E i \in EntriesOf("popularity_based") : recs[i].id = t

\* the user has been recommended a path they are enrolled in, after a
\* tier-matched entry
C27_Witness ==
    /\ RecsReturned
    /\ EntriesOf("ai_analysis") # {}
    /\ \E i \in EntriesOf("popularity_based") :
         ContentRecs(result)[i].id \in Enrolled(result.user_id)

-----------------------------------------------------------------------------
(* Completion of a learning path: update_content_progress calls of two      *)
(* workers on a path of two content items                                   *)

\* calls made in one run
MaxCalls == 3

CompletionProgressos == {50, 100}

\* the calls issued so far: committed ones and those still in their session
CallsIssued == Len(committed) + Cardinality({s \in Sessions : session[s].pc # "idle"})

\* one learner enrolled in path 1, whose content items are 1 and 2
InitCompletion ==
    /\ backend = "postgresql"
    /\ chatbot = NoChatbot
    /\ gemini = NoGemini
    /\ exchanges = <<>>
    /\ committed = <<>>
    /\ classified = <<>>
    /\ now = 0
    /\ usuarios = (1 :> "beginner")
    /\ trilhas = (1 :> "beginner")
    /\ conteudos = (1 :> 1) @@ (2 :> 1)
    /\ user_trilha = {<<1, 1>>}
    /\ desempenhos = {}
    /\ nextId = 1
    /\ session = [s \in Sessions |-> IdleSession]
    /\ queues = EmptyQueues
    /\ supplied = <<>>
    /\ result = NoResult

\* worker s enters update_content_progress; the arguments pass the
\* validation and the session runs the query of update_progress
CallCompletion ==
    \E s \in Sessions, c \in DOMAIN conteudos, p \in CompletionProgressos :
        /\ CallsIssued < MaxCalls
        /\ UpQuery(s, 1, c, p, NULL, NULL)

\* worker s commits, handles the completion and returns
ReturnCompletion ==
    \E s \in Sessions :
        LET a   == session[s]
            out == update_content_progress(a.user_id, a.conteudo_id, a.progresso,
                                           a.nota, a.tempo_estudo, a.loaded)
        IN  /\ a.pc = "queried"
            /\ Deliver(out)
            /\ result' = DeliveryResult("task", TRUE, a.user_id, a.conteudo_id,
                                        a.progresso, a.nota, NULL, out.ret)
            /\ session' = [session EXCEPT ![s] = IdleSession]
            /\ committed' = Append(committed,
                                   [session |-> s, nota |-> a.nota,
                                    tempo_estudo |-> a.tempo_estudo, read |-> NULL])
            /\ UNCHANGED <<gemini, exchanges, chatbot, classified, backend, now,
                           usuarios, trilhas, conteudos, user_trilha, supplied>>

NextCompletion ==
    CallCompletion \/ ReturnCompletion \/ ProcessNotifications \/ ProcessAnalytics

SpecCompletion == InitCompletion /\ [][NextCompletion]_vars

\* the notifications the step publishes
PublishedNow ==
    {queues'.notifications[i] :
        i \in (Len(queues.notifications) + 1)..Len(queues'.notifications)}

\* in the table ds, every content item of path t has a record of user u with
\* progress >= 100
PathCompleted(ds, u, t) ==
    \A c \in DOMAIN conteudos :
        conteudos[c] = t =>
            \E d \in ds :
                d.usuario_id = u /\ d.conteudo_id = c /\ d.progresso >= 100

\* C28: a trilha_completed notification for a (user, learning path) is
\* published only in a state in which every content item of that path has a
\* performance record of that user with progress >= 100.
C28_CompletedOnlyWhenAllItemsDone ==
    [][\A m \in PublishedNow :
          m.type = "trilha_completed" =>
              PathCompleted(desempenhos', m.recipient, conteudos[result'.conteudo_id])]_vars

-----------------------------------------------------------------------------
(* The notifications of the business layer: enrollment, user creation and   *)
(* content completion publish; process_notifications consumes               *)

\* ContentDelivery.enroll_user_in_trilha(user_id, trilha_id)
enroll_user_in_trilha(user_id, trilha_id) ==
    IF user_id \notin DOMAIN usuarios
    THEN [ret |-> [success |-> FALSE, error |-> "User not found"],
          user_trilha |-> user_trilha, queues |-> queues]
    ELSE IF trilha_id \notin DOMAIN trilhas
    THEN [ret |-> [success |-> FALSE, error |-> "Trilha not found"],
          user_trilha |-> user_trilha, queues |-> queues]
    ELSE IF <<user_id, trilha_id>> \in user_trilha
    THEN [ret |-> [success |-> FALSE, error |-> "User already enrolled in this trilha"],
          user_trilha |-> user_trilha, queues |-> queues]
    ELSE [ret |-> [success |-> TRUE],
          user_trilha |-> user_trilha \cup {<<user_id, trilha_id>>},
          queues |-> Notify(TrackOn(queues, "trilha_enrollment", user_id),
                            "enrollment_confirmation", user_id)]

\* a request to enroll
EnrollUserInTrilha ==
    /\ \E u \in UserIds, t \in TrilhaIds :
         LET out == enroll_user_in_trilha(u, t)
         IN  /\ Len(out.queues.notifications) <= MaxQueue
             /\ Len(out.queues.analytics) <= MaxQueue
             /\ user_trilha' = out.user_trilha
             /\ queues' = out.queues
             /\ result' = [op |-> "enroll_user_in_trilha", user_id |-> u,
                           trilha_id |-> t, value |-> out.ret]
    /\ UNCHANGED <<committed, gemini, exchanges, chatbot, classified, backend, now,
                   usuarios, trilhas, conteudos, desempenhos, nextId, session, supplied>>

\* UsuarioManager.create_user; the store of the model keeps no e-mail
\* address, so whether the address is free and well-formed is an input
CreateUser ==
    /\ \E email_accepted \in BOOLEAN :
         IF ~email_accepted
         THEN /\ result' = [op |-> "create_user", value |-> [success |-> FALSE]]
              /\ UNCHANGED <<usuarios, queues>>
         ELSE LET free == UserIds \ DOMAIN usuarios
                  id   == CHOOSE i \in free : \A j \in free : i <= j
                  q    == Notify(TrackOn(queues, "user_created", id), "welcome", id)
              IN  /\ free # {}
                  /\ Len(q.notifications) <= MaxQueue
                  /\ Len(q.analytics) <= MaxQueue
                  /\ usuarios' = usuarios @@ (id :> "beginner")
                  /\ queues' = q
                  /\ result' = [op |-> "create_user",
                                value |-> [success |-> TRUE, id |-> id]]
    /\ UNCHANGED <<committed, gemini, exchanges, chatbot, classified, backend, now,
                   trilhas, conteudos, user_trilha, desempenhos, nextId, session, supplied>>

\* one registered learner, not enrolled yet, and the two paths of the catalog
InitNotify ==
    /\ backend = "postgresql"
    /\ chatbot = NoChatbot
    /\ gemini = NoGemini
    /\ exchanges = <<>>
    /\ committed = <<>>
    /\ classified = <<>>
    /\ now = 0
    /\ usuarios = (1 :> "beginner")
    /\ trilhas = (1 :> "beginner") @@ (2 :> "intermediate")
    /\ conteudos = (1 :> 1) @@ (2 :> 2)
    /\ user_trilha = {}
    /\ desempenhos = {}
    /\ nextId = 1
    /\ session = [s \in Sessions |-> IdleSession]
    /\ queues = EmptyQueues
    /\ supplied = <<>>
    /\ result = NoResult

NextNotify ==
    \/ EnrollUserInTrilha
    \/ CreateUser
    \/ BatchProcessItem({NULL})
    \/ ProcessNotifications
    \/ ProcessAnalytics

SpecNotify == InitNotify /\ [][NextNotify]_vars

\* C29: every notification published through send_notification by the
\* business layer (enrollment_confirmation, content_completed,
\* trilha_completed, welcome) is passed to a registered handler when
\* process_notifications later consumes it; no notification is removed from
\* the queue and discarded unhandled.
C29_EveryNotificationHandled ==
    result.op = "process_notifications" => result.discarded = <<>>

-----------------------------------------------------------------------------
(* Study time: update_content_progress calls that supply tempo_estudo, one  *)
(* at a time, from the endpoint and from the batch task                     *)

\* tempo_estudo of a call: absent, zero, minutes studied, a negative number
TempoArgs == {NULL, 0, 10, -5}

InitStudyTime == InitDelivery /\ backend = "postgresql"

NextStudyTime ==
    \/ PostProgressUpdate(TempoArgs)
    \/ BatchProcessItem(TempoArgs)
    \/ ProcessNotifications
    \/ ProcessAnalytics

SpecStudyTime == InitStudyTime /\ [][NextStudyTime]_vars

\* C30: the stored study time of a performance record never decreases over
\* any sequence of update_content_progress calls, including those issued by
\* batch_process_user_progress, whatever study-time value each call supplies.
C30_StudyTimeNeverDecreases ==
    [][\A d \in desempenhos : \A e \in desempenhos' :
          e.id = d.id => e.tempo_estudo >= d.tempo_estudo]_vars

====
